---- MODULE Spec2Model ----
(***************************************************************************)
(* Verification model of the constant expression evaluator                 *)
(* (libsolidity/analysis/ConstantEvaluator) and of the control flow        *)
(* analyzer (ControlFlowAnalyzer: checkUninitializedAccess and             *)
(* checkUnreachable).                                                      *)
(*                                                                         *)
(* The evaluator computes with boost's arbitrary precision integers and    *)
(* rationals.  TLC's integers are 32 bit wide, so the model carries its    *)
(* own arbitrary precision arithmetic: a natural number is the sequence of *)
(* its digits in base LimbBase, least significant digit first and without  *)
(* leading zero digits at the end; a bigint is a sign and a magnitude; a   *)
(* rational is a reduced fraction with a positive denominator.             *)
(***************************************************************************)
EXTENDS Integers, Sequences, FiniteSets, TLC

\* ------------------------------------------------------------------------
\* Arbitrary precision naturals (the magnitude of boost's cpp_int)
\* ------------------------------------------------------------------------

LimbBits == 5 + 5

LimbBase == 2 ^ LimbBits

natLimb(a, i) == IF i >= 1 /\ i <= Len(a) THEN a[i] ELSE 0

\* the highest position in lo..hi that holds a non-zero digit, 0 if none does
RECURSIVE natTop(_, _, _)
natTop(a, lo, hi) ==
    IF lo > hi THEN 0
    ELSE IF lo = hi THEN (IF a[lo] # 0 THEN lo ELSE 0)
    ELSE LET mid == (lo + hi) \div 2
             top == natTop(a, mid + 1, hi)
         IN  IF top # 0 THEN top ELSE natTop(a, lo, mid)

natNorm(a) == SubSeq(a, 1, natTop(a, 1, Len(a)))

RECURSIVE natOfInt(_)
natOfInt(n) == IF n = 0 THEN <<>> ELSE <<n % LimbBase>> \o natOfInt(n \div LimbBase)

\* only applied to magnitudes below 2^30
RECURSIVE natToInt(_)
natToInt(a) == IF a = <<>> THEN 0 ELSE a[1] + LimbBase * natToInt(Tail(a))

natIsSmall(a) == Len(a) <= 3

\* compares the digits lo..hi of a and b (equally long), most significant first
RECURSIVE natCmpFrom(_, _, _, _)
natCmpFrom(a, b, lo, hi) ==
    IF lo > hi THEN 0
    ELSE IF lo = hi THEN (IF a[lo] = b[lo] THEN 0 ELSE IF a[lo] < b[lo] THEN -1 ELSE 1)
    ELSE LET mid == (lo + hi) \div 2
             top == natCmpFrom(a, b, mid + 1, hi)
         IN  IF top # 0 THEN top ELSE natCmpFrom(a, b, lo, mid)

natCmp(a, b) ==
    IF Len(a) # Len(b) THEN (IF Len(a) < Len(b) THEN -1 ELSE 1)
    ELSE natCmpFrom(a, b, 1, Len(a))

natMax(m, n) == IF m >= n THEN m ELSE n

natMin(m, n) == IF m <= n THEN m ELSE n

\* Carry propagation.  cols holds one value per digit position;
\* natCarryRange resolves the positions lo..hi with the carry c coming in,
\* the lower half before the upper half, which keeps the recursion shallow.
\* The final carry is never negative (natSub is applied to a >= b only).
RECURSIVE natCarryRange(_, _, _, _)
natCarryRange(cols, lo, hi, c) ==
    IF lo > hi THEN [digits |-> <<>>, carry |-> c]
    ELSE IF lo = hi
    THEN LET v == cols[lo] + c
         IN  [digits |-> <<v % LimbBase>>, carry |-> v \div LimbBase]
    ELSE LET mid == (lo + hi) \div 2
             lower == natCarryRange(cols, lo, mid, c)
             upper == natCarryRange(cols, mid + 1, hi, lower.carry)
         IN  [digits |-> lower.digits \o upper.digits, carry |-> upper.carry]

natCarry(cols) ==
    LET r == natCarryRange(cols, 1, Len(cols), 0)
    IN  natNorm(r.digits \o natOfInt(r.carry))

natAdd(a, b) == natCarry([i \in 1..natMax(Len(a), Len(b)) |-> natLimb(a, i) + natLimb(b, i)])

\* a - b for a >= b
natSub(a, b) == natCarry([i \in 1..Len(a) |-> a[i] - natLimb(b, i)])

\* the sum of a[i] * b[k + 1 - i] over the i from lo to hi
RECURSIVE natColumn(_, _, _, _, _)
natColumn(a, b, k, lo, hi) ==
    IF lo > hi THEN 0
    ELSE IF lo = hi THEN a[lo] * b[k + 1 - lo]
    ELSE natColumn(a, b, k, lo, (lo + hi) \div 2)
         + natColumn(a, b, k, ((lo + hi) \div 2) + 1, hi)

natMul(a, b) ==
    IF a = <<>> \/ b = <<>> THEN <<>>
    ELSE natCarry([k \in 1..(Len(a) + Len(b) - 1) |->
                      natColumn(a, b, k, natMax(1, k + 1 - Len(b)), natMin(Len(a), k))])

\* Short division of a by the machine integer d, 0 < d < 2^20: natDivRange
\* divides the positions hi down to lo with the remainder r coming in, the
\* upper half before the lower half.  The quotient digits are collected most
\* significant first and then reversed.
RECURSIVE natDivRange(_, _, _, _, _)
natDivRange(a, d, hi, lo, r) ==
    IF hi < lo THEN [digits |-> <<>>, rem |-> r]
    ELSE IF hi = lo
    THEN LET v == r * LimbBase + a[hi]
         IN  [digits |-> <<v \div d>>, rem |-> v % d]
    ELSE LET mid == (lo + hi) \div 2
             upper == natDivRange(a, d, hi, mid + 1, r)
             lower == natDivRange(a, d, mid, lo, upper.rem)
         IN  [digits |-> upper.digits \o lower.digits, rem |-> lower.rem]

natShortDiv(a, d) ==
    LET r == natDivRange(a, d, Len(a), 1, 0)
        n == Len(r.digits)
    IN  [quot |-> natNorm([i \in 1..n |-> r.digits[n + 1 - i]]), rem |-> natOfInt(r.rem)]

\* a * 2^s
natShl(a, s) ==
    IF a = <<>> THEN a
    ELSE [i \in 1..(s \div LimbBits) |-> 0] \o natMul(a, <<2 ^ (s % LimbBits)>>)

\* floor(a / 2^s)
natShr(a, s) ==
    LET q == s \div LimbBits
        r == s % LimbBits
    IN  IF q >= Len(a) THEN <<>>
        ELSE natNorm([i \in 1..(Len(a) - q) |->
                 (a[i + q] \div (2 ^ r))
                 + (natLimb(a, i + q + 1) % (2 ^ r)) * (2 ^ (LimbBits - r))])

RECURSIVE natDigitMsb(_)
natDigitMsb(d) == IF d <= 1 THEN 0 ELSE 1 + natDigitMsb(d \div 2)

\* index of the most significant set bit of a, a > 0
natMsb(a) == (Len(a) - 1) * LimbBits + natDigitMsb(a[Len(a)])

natBit(a, k) == (natLimb(a, (k \div LimbBits) + 1) \div (2 ^ (k % LimbBits))) % 2

\* the digit at position i of the number whose bits, most significant
\* first, are the n elements of bits
RECURSIVE natDigitOfBits(_, _, _, _)
natDigitOfBits(bits, n, i, j) ==
    IF j >= LimbBits \/ (i - 1) * LimbBits + j >= n THEN 0
    ELSE bits[n - ((i - 1) * LimbBits + j)] * (2 ^ j)
         + natDigitOfBits(bits, n, i, j + 1)

natOfBits(bits) ==
    LET n == Len(bits)
    IN  natNorm([i \in 1..((n + LimbBits - 1) \div LimbBits) |->
                    natDigitOfBits(bits, n, i, 0)])

\* schoolbook binary long division over the bits hi down to lo of a with the
\* remainder r coming in, the upper half before the lower half
RECURSIVE natLongDivRange(_, _, _, _, _)
natLongDivRange(a, b, hi, lo, r) ==
    IF hi < lo THEN [bits |-> <<>>, rem |-> r]
    ELSE IF hi = lo
    THEN LET r2 == natAdd(natShl(r, 1), IF natBit(a, hi) = 1 THEN <<1>> ELSE <<>>)
         IN  IF natCmp(r2, b) >= 0
             THEN [bits |-> <<1>>, rem |-> natSub(r2, b)]
             ELSE [bits |-> <<0>>, rem |-> r2]
    ELSE LET mid == (lo + hi) \div 2
             upper == natLongDivRange(a, b, hi, mid + 1, r)
             lower == natLongDivRange(a, b, mid, lo, upper.rem)
         IN  [bits |-> upper.bits \o lower.bits, rem |-> lower.rem]

\* a >= b > 0: the bits of a above the length of b cannot reach b and are
\* taken over as the first remainder
natLongDiv(a, b) ==
    LET s == natMsb(a) - natMsb(b)
        r == natLongDivRange(a, b, s, 0, natShr(a, s + 1))
    IN  [quot |-> natOfBits(r.bits), rem |-> r.rem]

natIsPowerOfTwo(b) ==
    /\ b # <<>>
    /\ \A i \in 1..(Len(b) - 1) : b[i] = 0
    /\ 2 ^ natDigitMsb(b[Len(b)]) = b[Len(b)]

\* quotient and remainder of a by b, b > 0
natDivMod(a, b) ==
    IF natCmp(a, b) < 0 THEN [quot |-> <<>>, rem |-> a]
    ELSE IF natIsPowerOfTwo(b)
         THEN [quot |-> natShr(a, natMsb(b)),
               rem  |-> natSub(a, natShl(natShr(a, natMsb(b)), natMsb(b)))]
    ELSE IF Len(b) <= 2 THEN natShortDiv(a, natToInt(b))
    ELSE IF natIsSmall(a)
         THEN [quot |-> natOfInt(natToInt(a) \div natToInt(b)),
               rem  |-> natOfInt(natToInt(a) % natToInt(b))]
    ELSE natLongDiv(a, b)

RECURSIVE natGcd(_, _)
natGcd(a, b) == IF b = <<>> THEN a ELSE natGcd(b, natDivMod(a, b).rem)

\* a^e by repeated squaring, e an integer >= 0
RECURSIVE natPow(_, _)
natPow(a, e) ==
    IF e = 0 THEN <<1>>
    ELSE LET h == natPow(a, e \div 2)
             s == natMul(h, h)
         IN  IF e % 2 = 1 THEN natMul(s, a) ELSE s

\* ------------------------------------------------------------------------
\* bigint (boost::multiprecision::cpp_int) and rational (boost::rational)
\* ------------------------------------------------------------------------

mkBig(s, m) == [sign |-> IF m = <<>> THEN 0 ELSE s, mag |-> m]

\* the bigint of a machine integer
bigint(n) == IF n < 0 THEN mkBig(-1, natOfInt(-n)) ELSE mkBig(1, natOfInt(n))

bigNeg(x) == mkBig(-x.sign, x.mag)

abs(x) == mkBig(1, x.mag)

bigCmp(x, y) ==
    IF x.sign # y.sign THEN (IF x.sign < y.sign THEN -1 ELSE 1)
    ELSE IF x.sign >= 0 THEN natCmp(x.mag, y.mag) ELSE natCmp(y.mag, x.mag)

bigAdd(x, y) ==
    IF x.sign = 0 THEN y
    ELSE IF y.sign = 0 THEN x
    ELSE IF x.sign = y.sign THEN mkBig(x.sign, natAdd(x.mag, y.mag))
    ELSE IF natCmp(x.mag, y.mag) >= 0 THEN mkBig(x.sign, natSub(x.mag, y.mag))
    ELSE mkBig(y.sign, natSub(y.mag, x.mag))

bigSub(x, y) == bigAdd(x, bigNeg(y))

bigMul(x, y) == mkBig(x.sign * y.sign, natMul(x.mag, y.mag))

\* cpp_int division truncates toward zero; the remainder has the dividend's sign
bigDiv(x, y) == mkBig(x.sign * y.sign, natDivMod(x.mag, y.mag).quot)

bigMod(x, y) == mkBig(x.sign, natDivMod(x.mag, y.mag).rem)

\* boost::multiprecision::msb: index of the most significant set bit, x > 0
msb(x) == natMsb(x.mag)

\* boost::multiprecision::pow(_base, _exponent), _exponent a machine integer
pow(b, e) == mkBig(IF b.sign < 0 /\ e % 2 = 1 THEN -1 ELSE 1, natPow(b.mag, e))

\* convert_to<uint32_t> / convert_to<int> of a value that fits a machine integer
bigToInt(x) == x.sign * natToInt(x.mag)

\* boost::rational normalises: lowest terms, denominator > 0
rational(n, d) ==
    IF d.mag = <<1>> THEN [numerator |-> n, denominator |-> d]
    ELSE LET g == natGcd(n.mag, d.mag)
         IN  [numerator   |-> mkBig(n.sign, natDivMod(n.mag, g).quot),
              denominator |-> mkBig(1, natDivMod(d.mag, g).quot)]

ratInt(n) == [numerator |-> n, denominator |-> bigint(1)]

ratAdd(a, b) ==
    rational(bigAdd(bigMul(a.numerator, b.denominator), bigMul(b.numerator, a.denominator)),
             bigMul(a.denominator, b.denominator))

ratNeg(a) == [numerator |-> bigNeg(a.numerator), denominator |-> a.denominator]

ratSub(a, b) == ratAdd(a, ratNeg(b))

ratMul(a, b) ==
    rational(bigMul(a.numerator, b.numerator), bigMul(a.denominator, b.denominator))

\* a / b for b # 0
ratDiv(a, b) ==
    rational(bigMul(bigMul(a.numerator, b.denominator), bigint(b.numerator.sign)),
             bigMul(a.denominator, abs(b.numerator)))

ratCmp(a, b) ==
    bigCmp(bigMul(a.numerator, b.denominator), bigMul(b.numerator, a.denominator))

\* ------------------------------------------------------------------------
\* ConstantEvaluator.cpp: the precision guards and the operators
\* ------------------------------------------------------------------------

\* std::nullopt and an engaged std::optional
nullopt == [has |-> FALSE]

Some(v) == [has |-> TRUE, value |-> v]

bitsMax == 4096

UInt32Max == mkBig(1, natSub(natShl(<<1>>, 32), <<1>>))

\* fitsPrecisionExp with the most significant bit index used as the bit count
fitsPrecisionExp_msbOnly(_base, _exp) ==
    IF _base.sign = 0 THEN TRUE
    ELSE IF msb(_base) = 0 THEN TRUE
    ELSE IF msb(_base) > bitsMax THEN FALSE
    ELSE bigCmp(bigMul(_exp, bigint(msb(_base))), bigint(bitsMax)) <= 0

\* fitsPrecisionExp with a strict comparison against bitsMax
fitsPrecisionExp_strict(_base, _exp) ==
    IF _base.sign = 0 THEN TRUE
    ELSE IF msb(_base) = 0 THEN TRUE
    ELSE IF msb(_base) > bitsMax THEN FALSE
    ELSE bigCmp(bigMul(_exp, bigint(msb(_base) + 1)), bigint(bitsMax)) < 0

\* fitsPrecisionExp that applies the estimate to the base 1 as well
fitsPrecisionExp_estimatesOne(_base, _exp) ==
    IF _base.sign = 0 THEN TRUE
    ELSE IF msb(_base) > bitsMax THEN FALSE
    ELSE bigCmp(bigMul(_exp, bigint(msb(_base) + 1)), bigint(bitsMax)) <= 0

\* Check whether (_base ** _exp) fits into 4096 bits; _base >= 0 (solAssert)
fitsPrecisionExp(_base, _exp) ==
    IF _base.sign = 0 THEN TRUE
    ELSE IF msb(_base) = 0 THEN TRUE
    ELSE IF msb(_base) > bitsMax THEN FALSE
    ELSE bigCmp(bigMul(_exp, bigint(msb(_base) + 1)), bigint(bitsMax)) <= 0

\* fitsPrecisionBaseX(_mantissa, _log2OfBase, _exp) for _log2OfBase = 1.0:
\* the same estimate, most significant bit of the mantissa plus the shift
fitsPrecisionBaseX(_mantissa, _exp) ==
    IF _mantissa.sign = 0 THEN TRUE
    ELSE IF msb(_mantissa) > bitsMax THEN FALSE
    ELSE bigCmp(bigAdd(bigAdd(bigint(msb(_mantissa)), _exp), bigint(1)), bigint(bitsMax)) <= 0

\* Checks whether _mantissa * (2 ** _expBase2) fits into 4096 bits
fitsPrecisionBase2(_mantissa, _expBase2) == fitsPrecisionBaseX(_mantissa, _expBase2)

\* rational(0), rational(1), rational(-1)
ratZero == ratInt(bigint(0))

ratOne == ratInt(bigint(1))

ratMinusOne == ratInt(bigint(-1))

fractional(_left, _right) ==
    _left.denominator # bigint(1) \/ _right.denominator # bigint(1)

\* makeRational: the denominator handed to boost has to be positive
makeRational(_numerator, _denominator) ==
    IF _denominator.sign < 0
    THEN rational(bigNeg(_numerator), bigNeg(_denominator))
    ELSE rational(_numerator, _denominator)

\* the lambda optimizedPow of the Exp case; _exponent is a uint32_t
optimizedPow(_base, _exponent) ==
    IF _base = bigint(1) THEN bigint(1)
    ELSE IF _base = bigint(-1) THEN bigint(1 - 2 * natBit(_exponent.mag, 0))
    ELSE pow(_base, bigToInt(_exponent))

evaluateDiv(_left, _right) ==
    IF _right = ratZero THEN nullopt ELSE Some(ratDiv(_left, _right))

evaluateMod(_left, _right) ==
    IF _right = ratZero THEN nullopt
    ELSE IF fractional(_left, _right)
    THEN LET tempValue == ratDiv(_left, _right)
         IN  Some(ratSub(_left,
                  ratMul(ratInt(bigDiv(tempValue.numerator, tempValue.denominator)), _right)))
    ELSE Some(ratInt(bigMod(_left.numerator, _right.numerator)))

\* the Exp case with the limit on the exponent tested before the bases 0, 1, -1
evaluateExpIntegral_limitsFirst(_left, _right) ==
    LET exp == _right.numerator
        absExp == abs(exp)
    IN  IF exp.sign = 0 THEN Some(ratOne)
        ELSE IF bigCmp(absExp, UInt32Max) > 0 THEN nullopt
        ELSE IF _left = ratZero \/ _left = ratOne THEN Some(_left)
        ELSE IF _left = ratMinusOne
        THEN Some(ratInt(bigint(1 - 2 * natBit(absExp.mag, 0))))
        ELSE IF \/ ~fitsPrecisionExp(abs(_left.numerator), absExp)
                \/ ~fitsPrecisionExp(abs(_left.denominator), absExp)
        THEN nullopt
        ELSE LET numerator == optimizedPow(_left.numerator, absExp)
                 denominator == optimizedPow(_left.denominator, absExp)
             IN  IF exp.sign >= 0
                 THEN Some(makeRational(numerator, denominator))
                 ELSE Some(makeRational(denominator, numerator))

\* the Exp case for an exponent without fractional part
evaluateExpIntegral(_left, _right) ==
    LET exp == _right.numerator
        absExp == abs(exp)
    IN  IF exp.sign = 0 THEN Some(ratOne)
        ELSE IF _left = ratZero \/ _left = ratOne THEN Some(_left)
        ELSE IF _left = ratMinusOne
        THEN Some(ratInt(bigint(1 - 2 * natBit(absExp.mag, 0))))
        ELSE IF bigCmp(absExp, UInt32Max) > 0 THEN nullopt
        ELSE IF \/ ~fitsPrecisionExp(abs(_left.numerator), absExp)
                \/ ~fitsPrecisionExp(abs(_left.denominator), absExp)
        THEN nullopt
        ELSE LET numerator == optimizedPow(_left.numerator, absExp)
                 denominator == optimizedPow(_left.denominator, absExp)
             IN  IF exp.sign >= 0
                 THEN Some(makeRational(numerator, denominator))
                 ELSE Some(makeRational(denominator, numerator))

\* the Exp case with the integrality test applied to the base, not the exponent
evaluateExp_testsBase(_left, _right) ==
    IF _left.denominator # bigint(1) THEN nullopt
    ELSE evaluateExpIntegral(_left, _right)

evaluateExp(_left, _right) ==
    IF _right.denominator # bigint(1) THEN nullopt
    ELSE evaluateExpIntegral(_left, _right)

evaluateSHL(_left, _right) ==
    IF fractional(_left, _right) THEN nullopt
    ELSE IF _right.numerator.sign < 0 THEN nullopt
    ELSE IF bigCmp(_right.numerator, UInt32Max) > 0 THEN nullopt
    ELSE IF _left.numerator.sign = 0 THEN Some(ratZero)
    ELSE LET exponent == _right.numerator
         IN  IF ~fitsPrecisionBase2(abs(_left.numerator), exponent) THEN nullopt
             ELSE Some(ratInt(bigMul(_left.numerator, pow(bigint(2), bigToInt(exponent)))))

\* the shift compared by >= against the most significant bit index
shiftExhaustsBits_offByOne(exponent, _numerator) ==
    bigCmp(exponent, bigint(msb(abs(_numerator)))) >= 0

\* exponent > msb(abs(_left.numerator())): the shift leaves no significant bit
shiftExhaustsBits(exponent, _numerator) ==
    bigCmp(exponent, bigint(msb(abs(_numerator)))) > 0

\* the SAR case with the truncating division for negative numerators too
evaluateSAR_truncates(_left, _right) ==
    IF fractional(_left, _right) THEN nullopt
    ELSE IF _right.numerator.sign < 0 THEN nullopt
    ELSE IF bigCmp(_right.numerator, UInt32Max) > 0 THEN nullopt
    ELSE IF _left.numerator.sign = 0 THEN Some(ratZero)
    ELSE LET exponent == _right.numerator
         IN  IF shiftExhaustsBits(exponent, _left.numerator)
             THEN Some(IF _left.numerator.sign < 0 THEN ratMinusOne ELSE ratZero)
             ELSE Some(ratInt(bigDiv(_left.numerator, pow(bigint(2), bigToInt(exponent)))))

evaluateSAR(_left, _right) ==
    IF fractional(_left, _right) THEN nullopt
    ELSE IF _right.numerator.sign < 0 THEN nullopt
    ELSE IF bigCmp(_right.numerator, UInt32Max) > 0 THEN nullopt
    ELSE IF _left.numerator.sign = 0 THEN Some(ratZero)
    ELSE LET exponent == _right.numerator
         IN  IF shiftExhaustsBits(exponent, _left.numerator)
             THEN Some(IF _left.numerator.sign < 0 THEN ratMinusOne ELSE ratZero)
             ELSE IF _left.numerator.sign < 0
             THEN Some(ratInt(bigSub(bigDiv(bigAdd(_left.numerator, bigint(1)),
                                            pow(bigint(2), bigToInt(exponent))),
                                     bigint(1))))
             ELSE Some(ratInt(bigDiv(_left.numerator, pow(bigint(2), bigToInt(exponent)))))

\* The tokens of the model.  The bit operators |, ^ and & are left out (no
\* claim is about them); LessThan stands for the comparison operators, which
\* evaluateBinaryOperator sends to its default case.
BinaryTokens == {"Add", "Sub", "Mul", "Div", "Mod", "Exp", "SHL", "SAR", "LessThan"}

evaluateBinaryOperator(_operator, _left, _right) ==
    CASE _operator = "Add" -> Some(ratAdd(_left, _right))
      [] _operator = "Sub" -> Some(ratSub(_left, _right))
      [] _operator = "Mul" -> Some(ratMul(_left, _right))
      [] _operator = "Div" -> evaluateDiv(_left, _right)
      [] _operator = "Mod" -> evaluateMod(_left, _right)
      [] _operator = "Exp" -> evaluateExp(_left, _right)
      [] _operator = "SHL" -> evaluateSHL(_left, _right)
      [] _operator = "SAR" -> evaluateSAR(_left, _right)
      [] OTHER -> nullopt

UnaryTokens == {"BitNot", "Sub", "Not"}

evaluateUnaryOperator(_operator, _input) ==
    CASE _operator = "BitNot" ->
            IF _input.denominator # bigint(1) THEN nullopt
            ELSE Some(ratInt(bigSub(bigNeg(_input.numerator), bigint(1))))
      [] _operator = "Sub" -> Some(ratNeg(_input))
      [] OTHER -> nullopt

\* ------------------------------------------------------------------------
\* Types (Type::Category, IntegerType, RationalNumberType) and convertType
\* ------------------------------------------------------------------------

\* TypeProvider::rationalNumber(_value): the rational number type of a value
rationalNumber(_value) == [category |-> "RationalNumber", value |-> _value]

\* the least and the greatest value of an integer type of _bits bits
integerMin(_bits, _signed) ==
    IF _signed THEN ratInt(bigNeg(pow(bigint(2), _bits - 1))) ELSE ratZero

integerMax(_bits, _signed) ==
    IF _signed
    THEN ratInt(bigSub(pow(bigint(2), _bits - 1), bigint(1)))
    ELSE ratInt(bigSub(pow(bigint(2), _bits), bigint(1)))

\* an IntegerType; the type carries its two limits along
integerType(_bits, _signed) ==
    [category |-> "Integer", bits |-> _bits, signed |-> _signed,
     minValue |-> integerMin(_bits, _signed), maxValue |-> integerMax(_bits, _signed)]

\* a type that is neither a rational number type nor an integer type
otherType == [category |-> "Other"]

\* IntegerType::minValue() and IntegerType::maxValue()
minValue(_type) == _type.minValue

maxValue(_type) == _type.maxValue

\* a TypedRational
TypedRational(_type, _value) == [type |-> _type, value |-> _value]

\* convertType with the upper bound itself rejected
convertType_excludesMax(_value, _type) ==
    IF _type.category = "RationalNumber"
    THEN Some(TypedRational(rationalNumber(_value), _value))
    ELSE IF _type.category = "Integer"
    THEN IF ratCmp(_value, maxValue(_type)) >= 0 \/ ratCmp(_value, minValue(_type)) < 0
         THEN nullopt
         ELSE Some(TypedRational(_type, ratInt(bigDiv(_value.numerator, _value.denominator))))
    ELSE nullopt

\* convertType(rational const& _value, Type const& _type)
convertType(_value, _type) ==
    IF _type.category = "RationalNumber"
    THEN Some(TypedRational(rationalNumber(_value), _value))
    ELSE IF _type.category = "Integer"
    THEN IF ratCmp(_value, maxValue(_type)) > 0 \/ ratCmp(_value, minValue(_type)) < 0
         THEN nullopt
         ELSE Some(TypedRational(_type, ratInt(bigDiv(_value.numerator, _value.denominator))))
    ELSE nullopt

\* convertType(std::optional<TypedRational> const& _value, Type const& _type)
convertTypeOpt(_value, _type) ==
    IF _value.has THEN convertType(_value.value.value, _type) ELSE nullopt

\* constantToTypedValue(Type const& _type)
constantToTypedValue(_type) ==
    IF _type.category = "RationalNumber"
    THEN Some(TypedRational(_type, _type.value))
    ELSE nullopt

\* ------------------------------------------------------------------------
\* ControlFlowAnalyzer.cpp: the data flow over a function's control flow graph
\* ------------------------------------------------------------------------

\* f with the entry for k set to v, created if absent (std::map::operator[])
put(f, k, v) == [x \in (DOMAIN f) \union {k} |-> IF x = k THEN v ELSE f[x]]

\* the least element of a non-empty set of integers (std::set::begin)
begin(S) == CHOOSE x \in S : \A y \in S : x <= y

\* a default-constructed NodeInfo
NodeInfo ==
    [unassignedVariablesAtEntry |-> {},
     unassignedVariablesAtExit |-> {},
     uninitializedVariableAccesses |-> {}]

\* nodeInfos[_node]: the entry of the map, default-constructed if absent
nodeInfoAt(_nodeInfos, _node) ==
    IF _node \in DOMAIN _nodeInfos THEN _nodeInfos[_node] ELSE NodeInfo

\* NodeInfo::propagateFrom without the merge of the flagged accesses
propagateFrom_dropsAccesses(_this, _entryNode) ==
    LET merged == [_this EXCEPT
                      !.unassignedVariablesAtEntry = @ \union _entryNode.unassignedVariablesAtExit]
    IN  [info |-> merged,
         changed |-> Cardinality(merged.unassignedVariablesAtEntry)
                        > Cardinality(_this.unassignedVariablesAtEntry)]

\* NodeInfo::propagateFrom that always asks for the node to be traversed again
propagateFrom_alwaysChanged(_this, _entryNode) ==
    LET merged == [_this EXCEPT
                      !.unassignedVariablesAtEntry = @ \union _entryNode.unassignedVariablesAtExit,
                      !.uninitializedVariableAccesses = @ \union _entryNode.uninitializedVariableAccesses]
    IN  [info |-> merged, changed |-> TRUE]

\* NodeInfo::propagateFrom that looks at the growth of the entry set only
propagateFrom_entryGrowthOnly(_this, _entryNode) ==
    LET merged == [_this EXCEPT
                      !.unassignedVariablesAtEntry = @ \union _entryNode.unassignedVariablesAtExit,
                      !.uninitializedVariableAccesses = @ \union _entryNode.uninitializedVariableAccesses]
    IN  [info |-> merged,
         changed |-> Cardinality(merged.unassignedVariablesAtEntry)
                        > Cardinality(_this.unassignedVariablesAtEntry)]

\* NodeInfo::propagateFrom that assigns the sets of the predecessor
propagateFrom_assigns(_this, _entryNode) ==
    LET merged == [_this EXCEPT
                      !.unassignedVariablesAtEntry = _entryNode.unassignedVariablesAtExit,
                      !.uninitializedVariableAccesses = _entryNode.uninitializedVariableAccesses]
    IN  [info |-> merged, changed |-> merged # _this]

\* NodeInfo::propagateFrom: the NodeInfo after the merge, and whether it grew
propagateFrom(_this, _entryNode) ==
    LET merged == [_this EXCEPT
                      !.unassignedVariablesAtEntry = @ \union _entryNode.unassignedVariablesAtExit,
                      !.uninitializedVariableAccesses = @ \union _entryNode.uninitializedVariableAccesses]
    IN  [info |-> merged,
         changed |-> \/ Cardinality(merged.unassignedVariablesAtEntry)
                            > Cardinality(_this.unassignedVariablesAtEntry)
                     \/ Cardinality(merged.uninitializedVariableAccesses)
                            > Cardinality(_this.uninitializedVariableAccesses)]

\* a VariableOccurrence const*: the occurrence at position _index of _node
occurrenceAt(_node, _index) == [node |-> _node, index |-> _index]

\* the loop over currentNode->variableOccurrences from position i on
RECURSIVE replayOccurrences(_, _, _, _, _)
replayOccurrences(variableOccurrences, currentNode, i, unassignedVariables, accesses) ==
    IF i > Len(variableOccurrences) THEN [unassignedVariables |-> unassignedVariables,
                                          uninitializedVariableAccesses |-> accesses]
    ELSE LET variableOccurrence == variableOccurrences[i]
             declaration == variableOccurrence.declaration
         IN  CASE variableOccurrence.kind = "Assignment" ->
                     replayOccurrences(variableOccurrences, currentNode, i + 1,
                                       unassignedVariables \ {declaration}, accesses)
               [] variableOccurrence.kind \in {"InlineAssembly", "Access", "Return"} ->
                     replayOccurrences(variableOccurrences, currentNode, i + 1,
                                       unassignedVariables,
                                       IF declaration \in unassignedVariables
                                       THEN accesses \union {occurrenceAt(currentNode, i)}
                                       ELSE accesses)
               [] variableOccurrence.kind = "Declaration" ->
                     replayOccurrences(variableOccurrences, currentNode, i + 1,
                                       unassignedVariables \union {declaration}, accesses)

\* the loop over currentNode->exits: the map and the nodes inserted into the
\* work-list once the exits in _exits have been dealt with
RECURSIVE propagateToExits(_, _, _, _)
propagateToExits(_nodeInfos, currentNode, _exits, inserted) ==
    IF _exits = {} THEN [nodeInfos |-> _nodeInfos, inserted |-> inserted]
    ELSE LET exit == begin(_exits)
             exists == exit \in DOMAIN _nodeInfos
             p == propagateFrom(nodeInfoAt(_nodeInfos, exit), _nodeInfos[currentNode])
         IN  propagateToExits(put(_nodeInfos, exit, p.info), currentNode, _exits \ {exit},
                              IF p.changed \/ ~exists THEN inserted \union {exit} ELSE inserted)

\* one iteration of the work-list loop for currentNode
traverseNode(_flow, _nodeInfos, currentNode) ==
    LET nodeInfo == nodeInfoAt(_nodeInfos, currentNode)
        replayed == replayOccurrences(_flow.variableOccurrences[currentNode], currentNode, 1,
                                      nodeInfo.unassignedVariablesAtEntry,
                                      nodeInfo.uninitializedVariableAccesses)
        updated == [nodeInfo EXCEPT
                       !.uninitializedVariableAccesses = replayed.uninitializedVariableAccesses,
                       !.unassignedVariablesAtExit = replayed.unassignedVariables]
    IN  propagateToExits(put(_nodeInfos, currentNode, updated), currentNode,
                         _flow.exits[currentNode], {})

\* the work-list loop run to its end with the nodes taken in the order of
\* their numbers: the map nodeInfos when the work-list is empty
RECURSIVE workListLoop(_, _, _)
workListLoop(_flow, _nodeInfos, _nodesToTraverse) ==
    IF _nodesToTraverse = {} THEN _nodeInfos
    ELSE LET currentNode == begin(_nodesToTraverse)
             traversed == traverseNode(_flow, _nodeInfos, currentNode)
         IN  workListLoop(_flow, traversed.nodeInfos,
                          (_nodesToTraverse \ {currentNode}) \union traversed.inserted)

\* VariableOccurrence::operator<, by the position of the occurrence
occurrenceLess(lhs, rhs) ==
    lhs.node < rhs.node \/ (lhs.node = rhs.node /\ lhs.index < rhs.index)

\* ranges::sort of the flagged accesses
RECURSIVE uninitializedAccessesOrdered(_)
uninitializedAccessesOrdered(accesses) ==
    IF accesses = {} THEN <<>>
    ELSE LET first == CHOOSE a \in accesses : \A b \in accesses \ {a} : occurrenceLess(a, b)
         IN  <<first>> \o uninitializedAccessesOrdered(accesses \ {first})

\* a diagnostic handed to the error reporter, without secondary locations
diagnostic(_code, _severity, _location) ==
    [code |-> _code, severity |-> _severity, location |-> _location, secondary |-> <<>>]

\* std::set::emplace: the set afterwards and whether the element was inserted
emplace_alwaysInserted(S, x) == [set |-> S \union {x}, second |-> TRUE]

emplace_neverRemembers(S, x) == [set |-> S, second |-> x \notin S]

emplace(S, x) == [set |-> S \union {x}, second |-> x \notin S]

\* the SecondarySourceLocation ssl without the note on the declaration
secondaryLocation_withoutNote(variableOccurrence) == <<>>

\* the SecondarySourceLocation ssl of an occurrence: the note on the
\* declaration is appended when the occurrence has a location of its own
secondaryLocation(variableOccurrence) ==
    IF variableOccurrence.occurrence.has
    THEN <<[message |-> "The variable was declared here.",
            location |-> variableOccurrence.declaration.location]>>
    ELSE <<>>

\* the primary location of the error: the occurrence, or else the declaration
primaryLocation(variableOccurrence) ==
    IF variableOccurrence.occurrence.has
    THEN variableOccurrence.occurrence.value
    ELSE variableOccurrence.declaration.location

\* the test for pointers with storage pointers only
pointsToStorageOrCalldata_storageOnly(varDecl) == varDecl.isStorage

\* isStorage || isCalldata
pointsToStorageOrCalldata(varDecl) == varDecl.isStorage \/ varDecl.isCalldata

\* the body of the report loop for one flagged occurrence: the diagnostics
\* emitted for it and the set of return variables already warned for
reportAccess(_emptyBody, variableOccurrence, alreadyWarnedFor) ==
    LET varDecl == variableOccurrence.declaration
        warned == emplace(alreadyWarnedFor, varDecl)
    IN  IF pointsToStorageOrCalldata(varDecl)
        THEN [emitted |-> <<[diagnostic(3464, "error", primaryLocation(variableOccurrence))
                               EXCEPT !.secondary = secondaryLocation(variableOccurrence)]>>,
              alreadyWarnedFor |-> alreadyWarnedFor]
        ELSE IF ~_emptyBody /\ varDecl.name = ""
        THEN [emitted |-> IF warned.second
                          THEN <<diagnostic(6321, "warning", varDecl.location)>>
                          ELSE <<>>,
              alreadyWarnedFor |-> warned.set]
        ELSE [emitted |-> <<>>, alreadyWarnedFor |-> alreadyWarnedFor]

\* the loop over uninitializedAccessesOrdered from position i on: the
\* diagnostics emitted and the set of return variables already warned for
RECURSIVE reportAccesses(_, _, _, _, _)
reportAccesses(_flow, ordered, i, emitted, alreadyWarnedFor) ==
    IF i > Len(ordered) THEN [emitted |-> emitted, alreadyWarnedFor |-> alreadyWarnedFor]
    ELSE LET reported ==
                 reportAccess(_flow.emptyBody,
                              _flow.variableOccurrences[ordered[i].node][ordered[i].index],
                              alreadyWarnedFor)
         IN  reportAccesses(_flow, ordered, i + 1, emitted \o reported.emitted,
                            reported.alreadyWarnedFor)

\* util::BreadthFirstSearch: the nodes visited from the nodes of _verticesToTraverse
\* when _children(node) gives the nodes added for a visited node
RECURSIVE BreadthFirstSearch(_, _, _)
BreadthFirstSearch(_children, _verticesToTraverse, visited) ==
    IF _verticesToTraverse = {} THEN visited
    ELSE LET nowVisited == visited \union _verticesToTraverse
         IN  BreadthFirstSearch(_children,
                 UNION {_children[v] : v \in _verticesToTraverse} \ nowVisited, nowVisited)

\* CFGNode::entries, kept the inverse of CFGNode::exits by the graph builder
entriesOf(_flow) ==
    [n \in DOMAIN _flow.exits |-> {m \in DOMAIN _flow.exits : n \in _flow.exits[m]}]

\* SourceLocation without a position
invalidLocation == [start |-> 0 - 1, end |-> 0 - 1]

\* SourceLocation::isValid
isValid(_location) == _location.start >= 0 /\ _location.end >= 0

\* SourceLocation::operator<
locationLess(lhs, rhs) ==
    lhs.start < rhs.start \/ (lhs.start = rhs.start /\ lhs.end < rhs.end)

\* a backward search that does not start from the revert node
backwardRoots_withoutRevert(_exit, _revert, _transactionReturn) == {_exit, _transactionReturn}

\* the nodes the backward search starts from
backwardRoots(_exit, _revert, _transactionReturn) == {_exit, _revert, _transactionReturn}

\* a backward search that records every node with a valid location
unreachableLocations_ofVisitedNodes(_flow) ==
    LET backward == BreadthFirstSearch(entriesOf(_flow),
                        backwardRoots(_flow.exit, _flow.revert, _flow.transactionReturn), {})
    IN  {_flow.location[n] : n \in {m \in backward : isValid(_flow.location[m])}}

\* the set 'unreachable' of checkUnreachable: the valid locations of the nodes
\* found by the backward search that the forward search did not reach
unreachableLocations(_flow) ==
    LET reachable == BreadthFirstSearch(_flow.exits, {_flow.entry}, {})
        backward == BreadthFirstSearch(entriesOf(_flow),
                        backwardRoots(_flow.exit, _flow.revert, _flow.transactionReturn), {})
    IN  {_flow.location[n] : n \in {m \in backward :
                                      m \notin reachable /\ isValid(_flow.location[m])}}

\* the inner loop that leaves a location that only touches the range alone
RECURSIVE extendLocation_overlapsOnly(_, _)
extendLocation_overlapsOnly(location, rest) ==
    IF rest # <<>> /\ rest[1].start < location.end
    THEN extendLocation_overlapsOnly(
             [location EXCEPT !.end = natMax(location.end, rest[1].end)], Tail(rest))
    ELSE [location |-> location, rest |-> rest]

\* the inner loop of the report: 'location' extended over the locations of
\* 'rest' (in order) that start at or before its end; what is left is returned too
RECURSIVE extendLocation(_, _)
extendLocation(location, rest) ==
    IF rest # <<>> /\ rest[1].start <= location.end
    THEN extendLocation([location EXCEPT !.end = natMax(location.end, rest[1].end)], Tail(rest))
    ELSE [location |-> location, rest |-> rest]

\* the iteration order of std::set<SourceLocation>
RECURSIVE locationsOrdered(_)
locationsOrdered(locations) ==
    IF locations = {} THEN <<>>
    ELSE LET first == CHOOSE a \in locations : \A b \in locations \ {a} : locationLess(a, b)
         IN  <<first>> \o locationsOrdered(locations \ {first})

\* the outer loop of the report over the locations still to be looked at
RECURSIVE reportUnreachable(_, _, _)
reportUnreachable(remaining, emitted, alreadyWarnedFor) ==
    IF remaining = <<>> THEN [emitted |-> emitted, alreadyWarnedFor |-> alreadyWarnedFor]
    ELSE LET merged == extendLocation(remaining[1], Tail(remaining))
             warned == emplace(alreadyWarnedFor, merged.location)
         IN  reportUnreachable(merged.rest,
                 IF warned.second
                 THEN Append(emitted, diagnostic(5740, "warning", merged.location))
                 ELSE emitted,
                 warned.set)

\* ------------------------------------------------------------------------
\* State
\* ------------------------------------------------------------------------

\* A call of one of the pure functions of ConstantEvaluator.cpp: the function
\* called, its arguments, what it returned, and the call made before it.
VARIABLES callee, args, result, prev

\* The ControlFlowAnalyzer: the function flow under analysis, the locals of
\* checkUninitializedAccess, where the analysis stands, and the two members
\* that remember what was already warned for.
VARIABLES flow, nodeInfos, nodesToTraverse, pc,
          m_unassignedReturnVarsAlreadyWarnedFor,
          m_unreachableLocationsAlreadyWarnedFor

\* run(): the function flows of m_cfg in the order of allFunctionFlows, how
\* many of them the loop has dealt with, the function that called the check
\* that is running ("none" when the check was called on its own), and what
\* run returned.
VARIABLES m_cfg, analyzed, caller, runResult

\* The ConstantEvaluator: the syntax tree, the expression the static evaluate
\* was called for, the call stack of evaluate and the visit handlers, the
\* value the last call of evaluate returned, the two members of the
\* evaluator, how the call stands, and the outcome of the call before it.
VARIABLES ast, root, stack, ret, m_values, m_depth, status, firstRun

\* The diagnostics handed to the error reporter, in order.
VARIABLES errors

arithVars == <<callee, args, result, prev>>

runVars == <<m_cfg, analyzed, caller, runResult>>

analyzerVars ==
    <<flow, nodeInfos, nodesToTraverse, pc,
      m_unassignedReturnVarsAlreadyWarnedFor, m_unreachableLocationsAlreadyWarnedFor,
      runVars>>

evaluatorVars == <<ast, root, stack, ret, m_values, m_depth, status, firstRun>>

vars == <<arithVars, analyzerVars, evaluatorVars, errors>>

noCall == [callee |-> "none"]

\* no function is being called
ArithIdle ==
    /\ callee = "none"
    /\ args = <<>>
    /\ result = nullopt
    /\ prev = noCall

\* a ControlFlowAnalyzer that was handed no function flow
AnalyzerIdle ==
    /\ flow = <<>>
    /\ nodeInfos = <<>>
    /\ nodesToTraverse = {}
    /\ pc = "none"
    /\ m_unassignedReturnVarsAlreadyWarnedFor = {}
    /\ m_unreachableLocationsAlreadyWarnedFor = {}
    /\ m_cfg = <<>>
    /\ analyzed = 0
    /\ caller = "none"
    /\ runResult = "none"

\* no expression is being evaluated
EvaluatorIdle ==
    /\ ast = <<>>
    /\ root = <<>>
    /\ stack = <<>>
    /\ ret = nullopt
    /\ m_values = <<>>
    /\ m_depth = 0
    /\ status = "none"
    /\ firstRun = [status |-> "none"]

\* ------------------------------------------------------------------------
\* The pure functions under their callers
\* ------------------------------------------------------------------------

MaxSmall == 3
MaxBytes == 2

\* n/1 and n/2 for the small n
SmallRationals ==
    {rational(bigint(n), bigint(d)) : n \in (0 - MaxSmall)..MaxSmall, d \in 1..2}

\* shift amounts and exponents around the precision limit and the uint32 limit
EdgeRationals ==
    {ratInt(bigint(bitsMax - k)) : k \in 0..MaxSmall}
        \union {ratInt(UInt32Max), ratInt(bigAdd(UInt32Max, bigint(1)))}

Operands == SmallRationals \union EdgeRationals

\* bases around half the precision limit and around the limit itself
PrecisionBases ==
    {bigint(n) : n \in 0..MaxSmall}
        \union {bigSub(pow(bigint(2), k), bigint(e)) :
                    k \in {bitsMax \div 2 - 1, bitsMax \div 2, bitsMax, bitsMax + 1},
                    e \in 0..1}

PrecisionExponents ==
    {bigint(n) : n \in 0..MaxSmall}
        \union {bigint(bitsMax \div d + e) : d \in 1..2, e \in (0 - 1)..1}
        \union {UInt32Max}

IntegerTypes == {integerType(8 * k, s) : k \in 1..MaxBytes, s \in BOOLEAN}

TargetTypes == IntegerTypes \union {otherType, rationalNumber(ratZero)}

\* values around the limits of the integer types, in steps of one half
ConvertValues ==
    SmallRationals
        \union {ratAdd(b, rational(bigint(k), bigint(2))) :
                    b \in {minValue(ty) : ty \in IntegerTypes}
                            \union {maxValue(ty) : ty \in IntegerTypes},
                    k \in (0 - 2)..2}

InitArith ==
    /\ ArithIdle
    /\ AnalyzerIdle
    /\ EvaluatorIdle
    /\ errors = <<>>

CallFitsPrecisionExp ==
    /\ callee = "none"
    /\ \E _base \in PrecisionBases, _exp \in PrecisionExponents :
          /\ callee' = "fitsPrecisionExp"
          /\ args' = [base |-> _base, exp |-> _exp]
          /\ result' = fitsPrecisionExp(_base, _exp)
    /\ UNCHANGED <<prev, analyzerVars, evaluatorVars, errors>>

CallEvaluateBinaryOperator ==
    /\ callee = "none"
    /\ \E _operator \in BinaryTokens, _left \in Operands, _right \in Operands :
          /\ callee' = "evaluateBinaryOperator"
          /\ args' = [operator |-> _operator, left |-> _left, right |-> _right]
          /\ result' = evaluateBinaryOperator(_operator, _left, _right)
    /\ UNCHANGED <<prev, analyzerVars, evaluatorVars, errors>>

\* the value of one binary operation is the left operand of a second one
\* with the same right operand, as in (x << s) >> s
CallEvaluateBinaryOperatorOnResult ==
    /\ callee = "evaluateBinaryOperator"
    /\ prev = noCall
    /\ result.has
    /\ \E _operator \in BinaryTokens :
          /\ callee' = "evaluateBinaryOperator"
          /\ args' = [operator |-> _operator, left |-> result.value, right |-> args.right]
          /\ result' = evaluateBinaryOperator(_operator, result.value, args.right)
    /\ prev' = [callee |-> callee, args |-> args, result |-> result]
    /\ UNCHANGED <<analyzerVars, evaluatorVars, errors>>

CallEvaluateUnaryOperator ==
    /\ callee = "none"
    /\ \E _operator \in UnaryTokens, _input \in SmallRationals :
          /\ callee' = "evaluateUnaryOperator"
          /\ args' = [operator |-> _operator, input |-> _input]
          /\ result' = evaluateUnaryOperator(_operator, _input)
    /\ UNCHANGED <<prev, analyzerVars, evaluatorVars, errors>>

CallConvertType ==
    /\ callee = "none"
    /\ \E _value \in ConvertValues, _type \in TargetTypes :
          /\ callee' = "convertType"
          /\ args' = [value |-> _value, type |-> _type]
          /\ result' = convertType(_value, _type)
    /\ UNCHANGED <<prev, analyzerVars, evaluatorVars, errors>>

NextArith ==
    \/ CallFitsPrecisionExp
    \/ CallEvaluateBinaryOperator
    \/ CallEvaluateBinaryOperatorOnResult
    \/ CallEvaluateUnaryOperator
    \/ CallConvertType

SpecArith == InitArith /\ [][NextArith]_vars

\* ------------------------------------------------------------------------
\* checkUninitializedAccess over small function flows
\* ------------------------------------------------------------------------

MaxEdges == 3

\* the nodes that carry code, in the order of their addresses
CodeNodes == 1..3

\* all nodes of a function flow: the code nodes, the revert node and the
\* transaction-return node
FlowNodes == 1..5

\* the successor maps with at most MaxEdges edges among the nodes of _from x _to
exitMaps(_from, _to) ==
    {[n \in FlowNodes |-> {m \in FlowNodes : <<n, m>> \in E}] :
        E \in {F \in SUBSET (_from \X _to) : Cardinality(F) <= MaxEdges}}

\* a storage pointer and an unnamed return variable
Variables ==
    {[id |-> "s", name |-> "s", isStorage |-> TRUE, isCalldata |-> FALSE,
      location |-> [start |-> 10, end |-> 11]],
     [id |-> "r", name |-> "", isStorage |-> FALSE, isCalldata |-> FALSE,
      location |-> [start |-> 12, end |-> 13]]}

\* the source location of the occurrence at position i of node n
occurrenceLocation(n, i) == [start |-> 100 * n + 10 * i, end |-> 100 * n + 10 * i + 5]

\* the orders in which a declaration, at most one assignment and at most one
\* use of a variable follow each other in the program text
OccurrenceOrders ==
    {<<>>, <<"Declaration">>}
        \union {<<"Declaration", k>> : k \in {"Assignment", "Access", "Return", "InlineAssembly"}}
        \union {<<k, "Declaration">> : k \in {"Assignment", "Access", "Return", "InlineAssembly"}}
        \union {<<"Declaration", "Assignment", "Access">>, <<"Declaration", "Access", "Assignment">>,
                <<"Assignment", "Declaration", "Access">>, <<"Access", "Declaration", "Assignment">>,
                <<"Assignment", "Access", "Declaration">>, <<"Access", "Assignment", "Declaration">>}

\* the occurrences of _order that lie in node n when the i-th lies in _where[i]
RECURSIVE occurrencesIn(_, _, _, _, _)
occurrencesIn(_order, _where, _variable, n, i) ==
    IF i > Len(_order) THEN <<>>
    ELSE (IF _where[i] = n
          THEN <<[kind |-> _order[i], declaration |-> _variable,
                  occurrence |-> IF _order[i] \in {"Declaration", "Return"} THEN nullopt
                                 ELSE Some(occurrenceLocation(n, i))]>>
          ELSE <<>>)
            \o occurrencesIn(_order, _where, _variable, n, i + 1)

noOccurrences == [n \in FlowNodes |-> <<>>]

noLocations == [n \in FlowNodes |-> invalidLocation]

\* The function flows whose code nodes are connected in every way with at
\* most MaxEdges edges, with the occurrences of one variable spread over them
\* of the given ones in one of the given orders.
flowsWith(_variables, _orders) ==
    {[entry |-> _entry, exit |-> 2, revert |-> 4, transactionReturn |-> 5,
      exits |-> _exits,
      variableOccurrences |->
          [n \in FlowNodes |-> occurrencesIn(w[1], w[2], _variable, n, 1)],
      location |-> noLocations,
      emptyBody |-> FALSE] :
        _exits \in exitMaps(CodeNodes, CodeNodes), _entry \in {1, 3}, _variable \in _variables,
        w \in UNION {{<<o, p>> : p \in [1..Len(o) -> CodeNodes]} : o \in _orders}}

\* a new ControlFlowAnalyzer on which one of the two checks is about to be
\* called for the function flow _flow
analyzerStartsAt(_flow, _pc) ==
    /\ ArithIdle
    /\ EvaluatorIdle
    /\ errors = <<>>
    /\ flow = _flow
    /\ nodeInfos = <<>>
    /\ nodesToTraverse = {}
    /\ pc = _pc
    /\ m_unassignedReturnVarsAlreadyWarnedFor = {}
    /\ m_unreachableLocationsAlreadyWarnedFor = {}
    /\ m_cfg = <<>>
    /\ analyzed = 0
    /\ caller = "none"
    /\ runResult = "none"

analyzerStartsOn(_flow) == analyzerStartsAt(_flow, "analyze")

InitUninitialized ==
    \E _flow \in flowsWith(Variables, OccurrenceOrders) : analyzerStartsOn(_flow)

\* the flows in which a storage pointer is declared in the entry node and read
\* somewhere
InitUninitializedLoops ==
    \E _flow \in {f \in flowsWith({v \in Variables : v.isStorage}, {<<"Declaration", "Access">>}) :
                     /\ f.variableOccurrences[f.entry] # <<>>
                     /\ f.variableOccurrences[f.entry][1].kind = "Declaration"} :
        analyzerStartsOn(_flow)

\* checkUninitializedAccess up to the work-list loop
CheckUninitializedAccess ==
    /\ pc = "analyze"
    /\ nodeInfos' = <<>>
    /\ nodesToTraverse' = {flow.entry}
    /\ pc' = "traverse"
    /\ UNCHANGED <<flow, m_unassignedReturnVarsAlreadyWarnedFor,
                   m_unreachableLocationsAlreadyWarnedFor, runVars, arithVars, evaluatorVars,
                   errors>>

\* one iteration of the work-list loop
TraverseNode ==
    /\ pc = "traverse"
    /\ nodesToTraverse # {}
    /\ LET currentNode == begin(nodesToTraverse)
           traversed == traverseNode(flow, nodeInfos, currentNode)
       IN  /\ nodeInfos' = traversed.nodeInfos
           /\ nodesToTraverse' = (nodesToTraverse \ {currentNode}) \union traversed.inserted
    /\ UNCHANGED <<flow, pc, m_unassignedReturnVarsAlreadyWarnedFor,
                   m_unreachableLocationsAlreadyWarnedFor, runVars, arithVars, evaluatorVars,
                   errors>>

\* the work-list is empty: the report on the flagged accesses at the exit node
ReportUninitializedAccess ==
    /\ pc = "traverse"
    /\ nodesToTraverse = {}
    /\ LET exitInfo == nodeInfoAt(nodeInfos, flow.exit)
           report == reportAccesses(flow,
                         uninitializedAccessesOrdered(exitInfo.uninitializedVariableAccesses),
                         1, <<>>, m_unassignedReturnVarsAlreadyWarnedFor)
       IN  /\ nodeInfos' = put(nodeInfos, flow.exit, exitInfo)
           /\ errors' = errors \o report.emitted
           /\ m_unassignedReturnVarsAlreadyWarnedFor' = report.alreadyWarnedFor
    /\ pc' = IF caller = "analyze" THEN "unreachable" ELSE "checked"
    /\ UNCHANGED <<flow, nodesToTraverse, m_unreachableLocationsAlreadyWarnedFor, runVars,
                   arithVars, evaluatorVars>>

\* one iteration of the work-list loop when the addresses of the nodes, by
\* which std::set orders the work-list, are not known: begin() is any node
\* of the work-list
TraverseAnyNode ==
    /\ pc = "traverse"
    /\ \E currentNode \in nodesToTraverse :
          LET traversed == traverseNode(flow, nodeInfos, currentNode)
          IN  /\ nodeInfos' = traversed.nodeInfos
              /\ nodesToTraverse' = (nodesToTraverse \ {currentNode}) \union traversed.inserted
    /\ UNCHANGED <<flow, pc, m_unassignedReturnVarsAlreadyWarnedFor,
                   m_unreachableLocationsAlreadyWarnedFor, runVars, arithVars, evaluatorVars,
                   errors>>

NextUninitializedAnyOrder ==
    \/ CheckUninitializedAccess
    \/ TraverseAnyNode
    \/ ReportUninitializedAccess

SpecUninitializedAnyOrder == InitUninitialized /\ [][NextUninitializedAnyOrder]_vars

NextUninitialized ==
    \/ CheckUninitializedAccess
    \/ TraverseNode
    \/ ReportUninitializedAccess

SpecUninitialized == InitUninitialized /\ [][NextUninitialized]_vars

\* checkUninitializedAccess is one call that runs to its end
SpecUninitializedFair ==
    InitUninitializedLoops /\ [][NextUninitialized]_vars /\ WF_vars(NextUninitialized)

\* ------------------------------------------------------------------------
\* checkUnreachable over small function flows
\* ------------------------------------------------------------------------

\* the code nodes other than entry and exit
Blocks == {3, 6}

\* character positions in the source
Positions == 0..2

BlockLocations ==
    {invalidLocation}
        \union {l \in [start : Positions, end : Positions] : l.start <= l.end}

\* A function flow with entry 1, exit 2, revert 4 and transaction return 5,
\* and two blocks that are connected to them and to each other in every way
\* with at most MaxEdges edges; the entry node has the location of the first
\* statement or none.
InitUnreachable ==
    \E _exits \in {[n \in 1..6 |-> {m \in 1..6 : <<n, m>> \in E}] :
                      E \in {F \in SUBSET (({1} \union Blocks) \X ({2, 4, 5} \union Blocks)) :
                                Cardinality(F) <= MaxEdges}},
       _locations \in [Blocks -> BlockLocations],
       _entryLocation \in {invalidLocation, [start |-> 0, end |-> 1]} :
       analyzerStartsAt([entry |-> 1, exit |-> 2, revert |-> 4, transactionReturn |-> 5,
                         exits |-> _exits,
                         variableOccurrences |-> [n \in 1..6 |-> <<>>],
                         location |-> [n \in 1..6 |->
                                          IF n \in Blocks THEN _locations[n]
                                          ELSE IF n = 1 THEN _entryLocation
                                          ELSE invalidLocation],
                         emptyBody |-> FALSE], "unreachable")

CheckUnreachable ==
    /\ pc = "unreachable"
    /\ LET report == reportUnreachable(locationsOrdered(unreachableLocations(flow)), <<>>,
                                       m_unreachableLocationsAlreadyWarnedFor)
       IN  /\ errors' = errors \o report.emitted
           /\ m_unreachableLocationsAlreadyWarnedFor' = report.alreadyWarnedFor
    /\ pc' = IF caller = "analyze" THEN "run" ELSE "checked"
    /\ analyzed' = IF caller = "analyze" THEN analyzed + 1 ELSE analyzed
    /\ UNCHANGED <<flow, nodeInfos, nodesToTraverse, m_unassignedReturnVarsAlreadyWarnedFor,
                   m_cfg, caller, runResult, arithVars, evaluatorVars>>

NextUnreachable == CheckUnreachable

\* A function flow with three dead blocks that lead to the exit node, with
\* every choice of locations for them, on an analyzer that is new or has
\* warned about one range before.
MergeBlocks == {3, 6, 7}

MergePositions == 0..3

MergeLocations ==
    {invalidLocation}
        \union {l \in [start : MergePositions, end : MergePositions] : l.start <= l.end}

InitUnreachableMerge ==
    /\ ArithIdle
    /\ EvaluatorIdle
    /\ errors = <<>>
    /\ \E _locations \in [MergeBlocks -> MergeLocations] :
          flow = [entry |-> 1, exit |-> 2, revert |-> 4, transactionReturn |-> 5,
                  exits |-> [n \in 1..7 |-> IF n \in MergeBlocks \union {1} THEN {2} ELSE {}],
                  variableOccurrences |-> [n \in 1..7 |-> <<>>],
                  location |-> [n \in 1..7 |-> IF n \in MergeBlocks THEN _locations[n]
                                               ELSE invalidLocation],
                  emptyBody |-> FALSE]
    /\ nodeInfos = <<>>
    /\ nodesToTraverse = {}
    /\ pc = "unreachable"
    /\ m_unassignedReturnVarsAlreadyWarnedFor = {}
    /\ m_unreachableLocationsAlreadyWarnedFor \in {{}, {[start |-> 0, end |-> 1]}}
    /\ m_cfg = <<>>
    /\ analyzed = 0
    /\ caller = "none"
    /\ runResult = "none"

SpecUnreachableMerge == InitUnreachableMerge /\ [][NextUnreachable]_vars

SpecUnreachable == InitUnreachable /\ [][NextUnreachable]_vars

\* ------------------------------------------------------------------------
\* run() over the function flows of a control flow graph
\* ------------------------------------------------------------------------

\* Error::containsErrors: some diagnostic is neither a warning nor an info
containsErrors(_errors) ==
    \E k \in 1..Len(_errors) : _errors[k].severity \notin {"warning", "info"}

\* run returning true only when nothing at all was reported
runReturns_nothingReported(_errors) == _errors = <<>>

\* return !Error::containsErrors(m_errorReporter.errors())
runReturns(_errors) == ~containsErrors(_errors)

\* a storage pointer, an unnamed return variable, an unnamed calldata return
\* variable and a named variable of value type
RunVariables ==
    Variables
        \union {[id |-> "c", name |-> "", isStorage |-> FALSE, isCalldata |-> TRUE,
                  location |-> [start |-> 14, end |-> 15]],
                 [id |-> "x", name |-> "x", isStorage |-> FALSE, isCalldata |-> FALSE,
                  location |-> [start |-> 16, end |-> 17]]}

\* the edges a function flow of the family may have: an if at the entry node 1
\* with the branch 3 and the node 6 after it, which leads to the exit node 2;
\* the branch may revert (node 4)
RunEdges == {<<1, 3>>, <<1, 6>>, <<3, 6>>, <<6, 2>>, <<3, 4>>}

\* the uses of the variable in node 6: a read, a return statement, the
\* implicit return at the end of the function (which has no location), and a
\* read followed by the implicit return
RunUses ==
    {<<[kind |-> "Access", located |-> TRUE]>>,
     <<[kind |-> "Return", located |-> TRUE]>>,
     <<[kind |-> "Return", located |-> FALSE]>>,
     <<[kind |-> "Access", located |-> TRUE], [kind |-> "Return", located |-> FALSE]>>}

\* where the variable is declared and whether the branch assigns it
RunWrites ==
    {[declared |-> 1, assigned |-> FALSE],
     [declared |-> 3, assigned |-> FALSE],
     [declared |-> 3, assigned |-> TRUE]}

VariableOccurrence(_declaration, _kind, _occurrence) ==
    [kind |-> _kind, declaration |-> _declaration, occurrence |-> _occurrence]

\* the occurrences of _variable in node n
runOccurrences(_variable, _writes, _uses, n) ==
    (IF _writes.declared = n
     THEN <<VariableOccurrence(_variable, "Declaration", nullopt)>>
     ELSE <<>>)
    \o (IF _writes.assigned /\ n = 3
         THEN <<VariableOccurrence(_variable, "Assignment", Some(occurrenceLocation(3, 2)))>>
         ELSE <<>>)
    \o (IF n = 6
         THEN [i \in 1..Len(_uses) |->
                  VariableOccurrence(_variable, _uses[i].kind,
                      IF _uses[i].located THEN Some(occurrenceLocation(6, i)) ELSE nullopt)]
         ELSE <<>>)

\* the locations of the branch and of the node after it: they touch or not
RunLocations ==
    {[n \in 1..6 |-> IF n = 3 THEN [start |-> 0, end |-> 1]
                     ELSE IF n = 6 THEN l
                     ELSE invalidLocation] :
        l \in {[start |-> 1, end |-> 2], [start |-> 3, end |-> 4]}}

RunFlows ==
    {[entry |-> 1, exit |-> 2, revert |-> 4, transactionReturn |-> 5,
      exits |-> [n \in 1..6 |-> {m \in 1..6 : <<n, m>> \in E}],
      variableOccurrences |-> [n \in 1..6 |-> runOccurrences(v, w, u, n)],
      location |-> l,
      emptyBody |-> e] :
        E \in SUBSET RunEdges, v \in RunVariables, w \in RunWrites, u \in RunUses,
        l \in RunLocations, e \in BOOLEAN}

\* another function: it reads a storage pointer of its own right after the
\* declaration and has a dead statement before the exit node
otherVariable ==
    [id |-> "t", name |-> "t", isStorage |-> TRUE, isCalldata |-> FALSE,
     location |-> [start |-> 20, end |-> 21]]

otherFlow ==
    [entry |-> 1, exit |-> 2, revert |-> 4, transactionReturn |-> 5,
     exits |-> [n \in 1..6 |-> IF n \in {1, 3} THEN {2} ELSE {}],
     variableOccurrences |->
         [n \in 1..6 |->
             IF n = 1
             THEN <<VariableOccurrence(otherVariable, "Declaration", nullopt),
                    VariableOccurrence(otherVariable, "Access",
                                       Some([start |-> 30, end |-> 31]))>>
             ELSE <<>>],
     location |-> [n \in 1..6 |-> IF n = 3 THEN [start |-> 40, end |-> 41]
                                  ELSE invalidLocation],
     emptyBody |-> FALSE]

\* a function of the graph with its flow
functionFlow(_isImplemented, _flow) == [isImplemented |-> _isImplemented, flow |-> _flow]

\* The control flow graphs: one function, the same function twice (as it is
\* when two contracts inherit it), the function after another one, and the
\* other one after the function without implementation.
InitRun ==
    /\ ArithIdle
    /\ EvaluatorIdle
    /\ errors = <<>>
    /\ flow = <<>>
    /\ nodeInfos = <<>>
    /\ nodesToTraverse = {}
    /\ pc = "run"
    /\ m_unassignedReturnVarsAlreadyWarnedFor = {}
    /\ m_unreachableLocationsAlreadyWarnedFor = {}
    /\ \E f \in RunFlows :
          m_cfg \in {<<functionFlow(TRUE, f)>>,
                     <<functionFlow(TRUE, f), functionFlow(TRUE, f)>>,
                     <<functionFlow(TRUE, otherFlow), functionFlow(TRUE, f)>>,
                     <<functionFlow(FALSE, f), functionFlow(TRUE, otherFlow)>>}
    /\ analyzed = 0
    /\ caller = "none"
    /\ runResult = "none"

\* the loop of run() takes the next function: analyze returns at once when the
\* function is not implemented and calls checkUninitializedAccess otherwise
Analyze ==
    /\ pc = "run"
    /\ analyzed < Len(m_cfg)
    /\ IF ~m_cfg[analyzed + 1].isImplemented
       THEN /\ analyzed' = analyzed + 1
            /\ UNCHANGED <<flow, pc, caller>>
       ELSE /\ flow' = m_cfg[analyzed + 1].flow
            /\ pc' = "analyze"
            /\ caller' = "analyze"
            /\ UNCHANGED analyzed
    /\ UNCHANGED <<nodeInfos, nodesToTraverse, m_unassignedReturnVarsAlreadyWarnedFor,
                   m_unreachableLocationsAlreadyWarnedFor, m_cfg, runResult,
                   arithVars, evaluatorVars, errors>>

\* the loop of run() is over: run returns whether no error was reported
RunReturns ==
    /\ pc = "run"
    /\ analyzed = Len(m_cfg)
    /\ runResult' = runReturns(errors)
    /\ pc' = "returned"
    /\ UNCHANGED <<flow, nodeInfos, nodesToTraverse, m_unassignedReturnVarsAlreadyWarnedFor,
                   m_unreachableLocationsAlreadyWarnedFor, m_cfg, analyzed, caller,
                   arithVars, evaluatorVars, errors>>

NextRun ==
    \/ Analyze
    \/ CheckUninitializedAccess
    \/ TraverseNode
    \/ ReportUninitializedAccess
    \/ CheckUnreachable
    \/ RunReturns

SpecRun == InitRun /\ [][NextRun]_vars

\* ------------------------------------------------------------------------
\* ConstantEvaluator::evaluate and the visit handlers over small syntax trees
\* ------------------------------------------------------------------------

\* a null pointer to a node and a null pointer to a type
NoNode == <<>>

NoType == [category |-> "None"]

maxDepth == 32

\* The nodes of the syntax tree.  A constant declaration d is the node
\* <<d, "declaration">>, its initializer the node <<d, "value">>, and the
\* operands of an initializer that is an operation the nodes <<d, "left">>
\* and <<d, "right">>.
Declarations == {"a", "b"}

VariableDeclaration(_value, _type) ==
    [kind |-> "VariableDeclaration", value |-> _value, type |-> _type]

\* a literal with what TypeProvider::forLiteral gives for it
Literal(_literalType) == [kind |-> "Literal", literalType |-> _literalType]

Identifier(_referencedDeclaration) ==
    [kind |-> "Identifier", referencedDeclaration |-> _referencedDeclaration]

\* an operation with the result type that the type of its operand has for
\* its operator (unaryOperatorResult / binaryOperatorResult)
UnaryOperation(_operator, _subExpression, _resultType) ==
    [kind |-> "UnaryOperation", operator |-> _operator,
     subExpression |-> _subExpression, resultType |-> _resultType]

BinaryOperation(_operator, _leftExpression, _rightExpression, _resultType) ==
    [kind |-> "BinaryOperation", operator |-> _operator,
     leftExpression |-> _leftExpression, rightExpression |-> _rightExpression,
     resultType |-> _resultType]

\* Type::unaryOperatorResult and Type::binaryOperatorResult for the operand
\* types of the operation _operation
unaryOperatorResult(_operation) == ast[_operation].resultType

binaryOperatorResult(_operation) == ast[_operation].resultType

\* TokenTraits::isCompareOp
isCompareOp(_operator) == _operator = "LessThan"

\* a tuple expression with its components
TupleExpression(_components) == [kind |-> "TupleExpression", components |-> _components]

\* the evaluator without a handler for tuple expressions
VisitHandlers_withoutTuple == {"Literal", "Identifier", "UnaryOperation", "BinaryOperation"}

\* the kinds of expression for which the evaluator overrides endVisit
VisitHandlers ==
    {"Literal", "Identifier", "UnaryOperation", "BinaryOperation", "TupleExpression"}

\* a cache in which no node is ever found
count_neverFound(_m_values, _node) == 0

\* m_values.count(&_node)
count(_m_values, _node) == IF _node \in DOMAIN _m_values THEN 1 ELSE 0

\* a stack frame of evaluate or of a visit handler: the node it was called
\* for, where it stands, and the local variable left of the binary handler
Frame(_function, _node) ==
    [function |-> _function, node |-> _node, at |-> "entry", left |-> nullopt]

\* the constructor with the depth counter left as it is
ConstantEvaluator_keepsDepth(_errorReporter) ==
    [m_errorReporter |-> _errorReporter, m_depth |-> m_depth, m_values |-> <<>>]

\* ConstantEvaluator{_errorReporter}: the members of a new evaluator
ConstantEvaluator(_errorReporter) ==
    [m_errorReporter |-> _errorReporter, m_depth |-> 0, m_values |-> <<>>]

\* the depth check with the limit itself rejected
depthExceeded_atLimit(_m_depth) == _m_depth >= maxDepth

\* m_depth > 32
depthExceeded(_m_depth) == _m_depth > maxDepth

noRun == [status |-> "none"]

\* the function on top of the call stack is running
running(_function, _at) ==
    /\ status = "running"
    /\ Head(stack).function = _function
    /\ Head(stack).at = _at

\* the function on top of the call stack returns to its caller, or to the
\* caller of the static evaluate
returns ==
    /\ stack' = Tail(stack)
    /\ status' = IF Tail(stack) = <<>> THEN "returned" ELSE "running"

\* the function on top of the call stack calls evaluate(_node) and goes on
\* at _at when that returns
callsEvaluate(_node, _at, _left) ==
    /\ stack' = <<Frame("evaluate", _node),
                  [Head(stack) EXCEPT !.at = _at, !.left = _left]>> \o Tail(stack)
    /\ status' = "running"

\* ErrorReporter::fatalTypeError: the diagnostic is handed over and the
\* evaluation is abandoned up to the caller of the static evaluate
fatalTypeError(_code, _location) ==
    /\ errors' = Append(errors, diagnostic(_code, "fatal", _location))
    /\ stack' = <<>>
    /\ status' = "fatal"

\* the static evaluate(_errorReporter, _expr): a new evaluator evaluates the
\* expression root; the outcome of the call before it is kept for comparison
StaticEvaluate ==
    /\ \/ status = "idle"
       \/ status \in {"returned", "fatal"} /\ firstRun = noRun
    /\ LET evaluator == ConstantEvaluator(errors)
       IN  /\ m_values' = evaluator.m_values
           /\ m_depth' = evaluator.m_depth
    /\ stack' = <<Frame("evaluate", root)>>
    /\ status' = "running"
    /\ ret' = nullopt
    /\ firstRun' = IF status = "idle" THEN noRun
                   ELSE [status |-> status, ret |-> ret, m_values |-> m_values,
                         m_depth |-> m_depth, errors |-> errors]
    /\ UNCHANGED <<ast, root, errors, arithVars, analyzerVars>>

\* evaluate(_node) up to its first call: a cached value is returned, a
\* declaration without initializer or type is cached as nullopt, any other
\* declaration has its initializer evaluated one level deeper, and an
\* expression is given to its visit handler
Evaluate ==
    /\ running("evaluate", "entry")
    /\ LET _node == Head(stack).node
       IN  IF count(m_values, _node) # 0
           THEN /\ ret' = m_values[_node]
                /\ returns
                /\ UNCHANGED <<m_values, m_depth, errors>>
           ELSE IF ast[_node].kind = "VariableDeclaration"
           THEN IF ast[_node].value = NoNode \/ ast[_node].type = NoType
                THEN /\ m_values' = put(m_values, _node, nullopt)
                     /\ ret' = nullopt
                     /\ returns
                     /\ UNCHANGED <<m_depth, errors>>
                ELSE /\ m_depth' = m_depth + 1
                     /\ IF depthExceeded(m_depth + 1)
                        THEN fatalTypeError(5210, _node)
                        ELSE /\ callsEvaluate(ast[_node].value, "initializer", nullopt)
                             /\ UNCHANGED errors
                     /\ UNCHANGED <<m_values, ret>>
           ELSE /\ stack' = IF ast[_node].kind \in VisitHandlers
                            THEN <<Frame(ast[_node].kind, _node),
                                   [Head(stack) EXCEPT !.at = "visited"]>> \o Tail(stack)
                            ELSE <<[Head(stack) EXCEPT !.at = "visited"]>> \o Tail(stack)
                /\ UNCHANGED <<m_values, m_depth, ret, status, errors>>
    /\ UNCHANGED <<ast, root, firstRun, arithVars, analyzerVars>>

\* evaluate(_node) of a declaration after its initializer was evaluated
EvaluateInitializer ==
    /\ running("evaluate", "initializer")
    /\ ret' = convertTypeOpt(ret, ast[Head(stack).node].type)
    /\ m_values' = put(m_values, Head(stack).node, ret')
    /\ m_depth' = m_depth - 1
    /\ returns
    /\ UNCHANGED <<ast, root, firstRun, errors, arithVars, analyzerVars>>

\* evaluate(_node) of an expression after its visit handler ran
EvaluateVisited ==
    /\ running("evaluate", "visited")
    /\ LET _node == Head(stack).node
           values == IF count(m_values, _node) # 0 THEN m_values
                     ELSE put(m_values, _node, nullopt)
       IN  /\ m_values' = values
           /\ ret' = values[_node]
    /\ returns
    /\ UNCHANGED <<ast, root, firstRun, m_depth, errors, arithVars, analyzerVars>>

\* endVisit(Literal const&)
EndVisitLiteral ==
    /\ running("Literal", "entry")
    /\ LET _literal == Head(stack).node
           literalType == ast[_literal].literalType
       IN  m_values' = IF literalType # NoType
                       THEN put(m_values, _literal, constantToTypedValue(literalType))
                       ELSE m_values
    /\ returns
    /\ UNCHANGED <<ast, root, firstRun, ret, m_depth, errors, arithVars, analyzerVars>>

\* endVisit(Identifier const&) up to the evaluation of the declaration
EndVisitIdentifier ==
    /\ running("Identifier", "entry")
    /\ LET variableDeclaration == ast[Head(stack).node].referencedDeclaration
       IN  IF variableDeclaration # NoNode
           THEN callsEvaluate(variableDeclaration, "declaration", nullopt)
           ELSE returns
    /\ UNCHANGED <<ast, root, firstRun, ret, m_values, m_depth, errors,
                   arithVars, analyzerVars>>

\* endVisit(Identifier const&) after the declaration was evaluated
EndVisitIdentifierDeclaration ==
    /\ running("Identifier", "declaration")
    /\ m_values' = put(m_values, Head(stack).node, ret)
    /\ returns
    /\ UNCHANGED <<ast, root, firstRun, ret, m_depth, errors, arithVars, analyzerVars>>

\* what a visit handler does at its end: it returns without a value, it
\* caches a value for its node, or it raises a fatal error
returnsNothing == [does |-> "return"]

caches(_value) == [does |-> "cache", value |-> _value]

raises(_code) == [does |-> "fatal", code |-> _code]

\* the last steps of both operation handlers: a raw result that does not
\* convert into the result type is the fatal error _code
storeConverted_withoutError(_convertedValue, _code) ==
    IF ~_convertedValue.has THEN returnsNothing ELSE caches(_convertedValue)

storeConverted(_convertedValue, _code) ==
    IF ~_convertedValue.has THEN raises(_code) ELSE caches(_convertedValue)

storeComputed(_value, _resultType, _code) ==
    IF ~_value.has THEN returnsNothing
    ELSE storeConverted(convertType(_value.value, _resultType), _code)

\* endVisit(UnaryOperation const&) from the converted operand on
operateUnary(_operator, _value, _resultType) ==
    IF ~_value.has THEN returnsNothing
    ELSE storeComputed(evaluateUnaryOperator(_operator, _value.value.value),
                       _resultType, 3667)

\* the unary handler that reports a missing result type as the binary one does
visitUnaryOperation_reportsNoType(_operator, _value, _resultType) ==
    IF ~_value.has THEN returnsNothing
    ELSE IF _resultType = NoType THEN raises(6020)
    ELSE operateUnary(_operator, convertTypeOpt(_value, _resultType), _resultType)

\* endVisit(UnaryOperation const&) from the evaluated operand on
visitUnaryOperation(_operator, _value, _resultType) ==
    IF ~_value.has \/ _resultType = NoType THEN returnsNothing
    ELSE operateUnary(_operator, convertTypeOpt(_value, _resultType), _resultType)

\* endVisit(BinaryOperation const&) from the converted operands on
operateBinary(_operator, _left, _right, _resultType) ==
    IF ~_left.has \/ ~_right.has THEN returnsNothing
    ELSE storeComputed(
             evaluateBinaryOperator(_operator, _left.value.value, _right.value.value),
             _resultType, 2643)

\* the binary handler with the query for the result type made before the
\* test for a comparison operator
visitBinaryOperation_queriesTypeFirst(_operator, _left, _right, _resultType) ==
    IF ~_left.has \/ ~_right.has THEN returnsNothing
    ELSE IF _resultType = NoType THEN raises(6020)
    ELSE IF isCompareOp(_operator) THEN returnsNothing
    ELSE operateBinary(_operator, convertTypeOpt(_left, _resultType),
                       convertTypeOpt(_right, _resultType), _resultType)

\* endVisit(BinaryOperation const&) from the evaluated operands on
visitBinaryOperation(_operator, _left, _right, _resultType) ==
    IF ~_left.has \/ ~_right.has \/ isCompareOp(_operator) THEN returnsNothing
    ELSE IF _resultType = NoType THEN raises(6020)
    ELSE operateBinary(_operator, convertTypeOpt(_left, _resultType),
                       convertTypeOpt(_right, _resultType), _resultType)

\* the handler of _operation ends as _end says
endsVisit(_operation, _end) ==
    IF _end.does = "fatal"
    THEN fatalTypeError(_end.code, _operation) /\ UNCHANGED m_values
    ELSE /\ m_values' = IF _end.does = "cache"
                        THEN put(m_values, _operation, _end.value)
                        ELSE m_values
         /\ returns
         /\ UNCHANGED errors

\* endVisit(UnaryOperation const&) up to the evaluation of the operand
EndVisitUnaryOperation ==
    /\ running("UnaryOperation", "entry")
    /\ callsEvaluate(ast[Head(stack).node].subExpression, "operand", nullopt)
    /\ UNCHANGED <<ast, root, firstRun, ret, m_values, m_depth, errors,
                   arithVars, analyzerVars>>

\* endVisit(UnaryOperation const&) after the operand was evaluated
EndVisitUnaryOperationOperand ==
    /\ running("UnaryOperation", "operand")
    /\ endsVisit(Head(stack).node,
                 visitUnaryOperation(ast[Head(stack).node].operator, ret,
                                     unaryOperatorResult(Head(stack).node)))
    /\ UNCHANGED <<ast, root, firstRun, ret, m_depth, arithVars, analyzerVars>>

\* endVisit(BinaryOperation const&) up to the evaluation of the left operand
EndVisitBinaryOperation ==
    /\ running("BinaryOperation", "entry")
    /\ callsEvaluate(ast[Head(stack).node].leftExpression, "left", nullopt)
    /\ UNCHANGED <<ast, root, firstRun, ret, m_values, m_depth, errors,
                   arithVars, analyzerVars>>

\* endVisit(BinaryOperation const&) between its two operands
EndVisitBinaryOperationLeft ==
    /\ running("BinaryOperation", "left")
    /\ callsEvaluate(ast[Head(stack).node].rightExpression, "right", ret)
    /\ UNCHANGED <<ast, root, firstRun, ret, m_values, m_depth, errors,
                   arithVars, analyzerVars>>

\* endVisit(BinaryOperation const&) after both operands were evaluated
EndVisitBinaryOperationRight ==
    /\ running("BinaryOperation", "right")
    /\ endsVisit(Head(stack).node,
                 visitBinaryOperation(ast[Head(stack).node].operator, Head(stack).left, ret,
                                      binaryOperatorResult(Head(stack).node)))
    /\ UNCHANGED <<ast, root, firstRun, ret, m_depth, arithVars, analyzerVars>>

\* endVisit(TupleExpression const&) up to the evaluation of the one component
EndVisitTupleExpression ==
    /\ running("TupleExpression", "entry")
    /\ LET _tuple == Head(stack).node
       IN  IF Len(ast[_tuple].components) = 1
           THEN callsEvaluate(ast[_tuple].components[1], "component", nullopt)
           ELSE returns
    /\ UNCHANGED <<ast, root, firstRun, ret, m_values, m_depth, errors,
                   arithVars, analyzerVars>>

\* endVisit(TupleExpression const&) after the component was evaluated
EndVisitTupleExpressionComponent ==
    /\ running("TupleExpression", "component")
    /\ m_values' = put(m_values, Head(stack).node, ret)
    /\ returns
    /\ UNCHANGED <<ast, root, firstRun, ret, m_depth, errors, arithVars, analyzerVars>>

NextEvaluate ==
    \/ StaticEvaluate
    \/ Evaluate
    \/ EvaluateInitializer
    \/ EvaluateVisited
    \/ EndVisitLiteral
    \/ EndVisitIdentifier
    \/ EndVisitIdentifierDeclaration
    \/ EndVisitUnaryOperation
    \/ EndVisitUnaryOperationOperand
    \/ EndVisitBinaryOperation
    \/ EndVisitBinaryOperationLeft
    \/ EndVisitBinaryOperationRight

\* The syntax trees: two constant declarations a and b, each with or without
\* a resolved type, and the static evaluate called for the initializer of a.
uint8 == integerType(8, FALSE)

literalOf(n) == Literal(rationalNumber(ratInt(bigint(n))))

Leaves ==
    {literalOf(1), literalOf(255)}
        \union {Identifier(<<d, "declaration">>) : d \in Declarations}

noInitializer == [value |-> [kind |-> "None"]]

\* a literal without a type, a string literal, a reference to a variable that
\* is not constant, and an expression without a visit handler
OtherLeaves ==
    {Literal(NoType), Literal(otherType), Identifier(NoNode), [kind |-> "FunctionCall"]}

LeafInitializers == {[value |-> l] : l \in Leaves \union OtherLeaves}

UnaryInitializers(d) ==
    {[value |-> UnaryOperation("Sub", <<d, "left">>, t), left |-> l] :
        t \in {uint8, NoType}, l \in Leaves}

BinaryInitializers(d) ==
    {[value |-> BinaryOperation(o[1], <<d, "left">>, <<d, "right">>, o[2]),
      left |-> l, right |-> r] :
        o \in {<<"Add", uint8>>, <<"Add", NoType>>, <<"LessThan", uint8>>},
        l \in Leaves,
        r \in {literalOf(255), Identifier(<<d, "declaration">>)}}

\* the syntax tree of the declarations with the initializers and types given
astOf(_initializers, _types) ==
    [n \in {<<d, "declaration">> : d \in Declarations}
            \union {<<d, r>> : d \in {e \in Declarations : _initializers[e] # noInitializer},
                               r \in {"value", "left", "right"}} |->
        IF n[2] = "declaration"
        THEN VariableDeclaration(
                 IF _initializers[n[1]] = noInitializer THEN NoNode ELSE <<n[1], "value">>,
                 _types[n[1]])
        ELSE IF n[2] \in DOMAIN _initializers[n[1]]
        THEN _initializers[n[1]][n[2]]
        ELSE [kind |-> "None"]]

\* the static evaluate is about to be called for the expression _root
evaluatorStartsAt(_ast, _root) ==
    /\ ArithIdle
    /\ AnalyzerIdle
    /\ errors = <<>>
    /\ ast = _ast
    /\ root = _root
    /\ stack = <<>>
    /\ ret = nullopt
    /\ m_values = <<>>
    /\ m_depth = 0
    /\ status = "idle"
    /\ firstRun = noRun

\* the static evaluate is about to be called for the initializer of a
evaluatorStartsOn(_ast) == evaluatorStartsAt(_ast, <<"a", "value">>)

InitEvaluate ==
    \E _a \in LeafInitializers \union UnaryInitializers("a") \union BinaryInitializers("a"),
       _b \in LeafInitializers \union {noInitializer},
       _types \in [Declarations -> {uint8, NoType}] :
       evaluatorStartsOn(astOf([d \in Declarations |-> IF d = "a" THEN _a ELSE _b], _types))

SpecEvaluate == InitEvaluate /\ [][NextEvaluate]_vars

\* the trees in which a and b refer to each other, to themselves or to a
\* literal, directly or from within an operation
InitEvaluateReferences ==
    \E _a \in {[value |-> l] : l \in Leaves \ {literalOf(255)}}
                  \union {[value |-> UnaryOperation("Sub", <<"a", "left">>, NoType),
                           left |-> Identifier(<<"b", "declaration">>)],
                          [value |-> BinaryOperation("Add", <<"a", "left">>, <<"a", "right">>,
                                                     uint8),
                           left |-> Identifier(<<"b", "declaration">>),
                           right |-> Identifier(<<"a", "declaration">>)]},
       _b \in {[value |-> l] : l \in Leaves \ {literalOf(255)}},
       _types \in [Declarations -> {uint8, NoType}] :
       evaluatorStartsOn(astOf([d \in Declarations |-> IF d = "a" THEN _a ELSE _b], _types))

\* the evaluator is synchronous code that runs to its end
SpecEvaluateFair ==
    InitEvaluateReferences /\ [][NextEvaluate]_vars /\ WF_vars(NextEvaluate)

\* The syntax trees with operations of every outcome: a is a tuple
\* expression around one expression or around two, a unary or a binary
\* operation whose operands are literals or references to b, and b is a
\* literal or has no initializer.
OperationLeaves ==
    {literalOf(0), literalOf(1), literalOf(255), literalOf(256),
     Identifier(<<"b", "declaration">>)}

TupleInitializers ==
    {[value |-> TupleExpression(<<<<"a", "left">>>>), left |-> l] :
        l \in OperationLeaves \union OtherLeaves}
        \union {[value |-> TupleExpression(<<<<"a", "left">>, <<"a", "right">>>>),
                  left |-> literalOf(1), right |-> literalOf(1)]}

UnaryOperationInitializers ==
    {[value |-> UnaryOperation(o, <<"a", "left">>, t), left |-> l] :
        o \in UnaryTokens, t \in {uint8, NoType}, l \in OperationLeaves}

BinaryOperationInitializers ==
    {[value |-> BinaryOperation(o, <<"a", "left">>, <<"a", "right">>, t),
      left |-> l, right |-> r] :
        o \in {"Add", "Sub", "Div", "Mod", "LessThan"}, t \in {uint8, NoType},
        l \in OperationLeaves, r \in OperationLeaves}

InitEvaluateOperations ==
    \E _a \in TupleInitializers \union UnaryOperationInitializers
                  \union BinaryOperationInitializers,
       _b \in {[value |-> literalOf(1)], [value |-> literalOf(255)], noInitializer} :
       evaluatorStartsOn(astOf([d \in Declarations |-> IF d = "a" THEN _a ELSE _b],
                               [d \in Declarations |-> uint8]))

NextEvaluateOperations ==
    \/ NextEvaluate
    \/ EndVisitTupleExpression
    \/ EndVisitTupleExpressionComponent

SpecEvaluateOperations == InitEvaluateOperations /\ [][NextEvaluateOperations]_vars

\* The chains of constants: the constant k is the node <<k, "declaration">>
\* with the initializer <<k, "value">>, which refers to the constant k + 1;
\* the initializer of the last constant is a literal. The static evaluate is
\* called for a reference to the constant 1, the node <<0, "value">>.
MaxChain == 34

chainOf(_length) ==
    [n \in {<<0, "value">>}
            \union {<<k, "declaration">> : k \in 1.._length}
            \union {<<k, "value">> : k \in 1.._length} |->
        IF n[2] = "declaration" THEN VariableDeclaration(<<n[1], "value">>, uint8)
        ELSE IF n[1] < _length THEN Identifier(<<n[1] + 1, "declaration">>)
        ELSE literalOf(1)]

InitEvaluateChain ==
    \E _length \in 1..MaxChain : evaluatorStartsAt(chainOf(_length), <<0, "value">>)

NextEvaluateChain ==
    \/ StaticEvaluate
    \/ Evaluate
    \/ EvaluateInitializer
    \/ EvaluateVisited
    \/ EndVisitLiteral
    \/ EndVisitIdentifier
    \/ EndVisitIdentifierDeclaration

SpecEvaluateChain == InitEvaluateChain /\ [][NextEvaluateChain]_vars

\* ------------------------------------------------------------------------
\* Properties of the control flow analysis
\* ------------------------------------------------------------------------

\* the nodes that can be reached from the nodes of S along the edges of
\* _exits, the nodes of S included
RECURSIVE reachableFrom(_, _)
reachableFrom(_exits, S) ==
    LET next == S \union UNION {_exits[n] : n \in S}
    IN  IF next = S THEN S ELSE reachableFrom(_exits, next)

\* C1: for every finite function flow, with loops, self-loops and edges back
\* to the entry node, the work-list loop of checkUninitializedAccess
\* terminates: the work-list eventually becomes empty.
WorkListTerminates == (pc = "traverse") ~> (nodesToTraverse = {})

\* the loop has ended on a flow in which a node with a self-loop leads back to
\* the entry node and a variable is unassigned when the node is entered
WorkListTerminatesWitness ==
    /\ pc = "checked"
    /\ nodesToTraverse = {}
    /\ \E n \in (DOMAIN nodeInfos) \ {flow.entry} :
          /\ n \in flow.exits[n]
          /\ flow.entry \in flow.exits[n]
          /\ nodeInfos[n].unassignedVariablesAtEntry # {}

\* the kinds of occurrence that read a variable
Uses == {"Access", "Return", "InlineAssembly"}

\* TRUE iff after the first k of _occurrences, started with the variables of U
\* unassigned, _variable is unassigned: its last declaration or assignment
\* among them is a declaration, or there is none and it is in U
unassignedAfter(_occurrences, k, U, _variable) ==
    LET writes == {i \in 1..k : /\ _occurrences[i].declaration = _variable
                                /\ _occurrences[i].kind \in {"Declaration", "Assignment"}}
    IN  IF writes = {} THEN _variable \in U
        ELSE _occurrences[CHOOSE i \in writes : \A j \in writes : j <= i].kind = "Declaration"

\* the variables that occur in the function flow
declarationsOf(_flow) ==
    UNION {{_flow.variableOccurrences[n][i].declaration :
               i \in 1..Len(_flow.variableOccurrences[n])} :
           n \in DOMAIN _flow.variableOccurrences}

\* the pairs <<node, U>> such that some path from the entry node ends with the
\* node being entered while exactly the variables of U are unassigned
RECURSIVE pathStates(_, _)
pathStates(_flow, S) ==
    LET step(s) ==
            {<<m, {v \in declarationsOf(_flow) :
                      unassignedAfter(_flow.variableOccurrences[s[1]],
                                      Len(_flow.variableOccurrences[s[1]]), s[2], v)}>> :
                m \in _flow.exits[s[1]]}
        next == S \union UNION {step(s) : s \in S}
    IN  IF next = S THEN S ELSE pathStates(_flow, next)

\* the occurrence at position i of node n uses a variable that is unassigned
\* there at the end of at least one path from the entry node
unassignedOnSomePath(_flow, n, i) ==
    /\ _flow.variableOccurrences[n][i].kind \in Uses
    /\ \E s \in pathStates(_flow, {<<_flow.entry, {}>>}) :
          /\ s[1] = n
          /\ unassignedAfter(_flow.variableOccurrences[n], i - 1, s[2],
                             _flow.variableOccurrences[n][i].declaration)

\* the flagged accesses that the report of checkUninitializedAccess looks at
flaggedAtExit == nodeInfos[flow.exit].uninitializedVariableAccesses

\* C2 as stated: every use of a variable that is unassigned on at least one
\* path from the entry node to the use is among the flagged accesses looked at
\* after the fixpoint, whether or not the exit node can be reached from the
\* node of the use.
EveryUnassignedUseFlagged ==
    pc = "checked" =>
        \A n \in CodeNodes : \A i \in 1..Len(flow.variableOccurrences[n]) :
            unassignedOnSomePath(flow, n, i) => occurrenceAt(n, i) \in flaggedAtExit

\* C2 amended: every use of a variable that is unassigned on at least one path
\* from the entry node to the use, in a node from which the exit node can be
\* reached, is among the flagged accesses looked at after the fixpoint.
EveryUnassignedUseBeforeExitFlagged ==
    pc = "checked" =>
        \A n \in CodeNodes : \A i \in 1..Len(flow.variableOccurrences[n]) :
            (/\ unassignedOnSomePath(flow, n, i)
             /\ flow.exit \in reachableFrom(flow.exits, {n}))
                => occurrenceAt(n, i) \in flaggedAtExit

\* a use in a node other than the exit node, reached through a loop, of a
\* variable that is assigned on another path, was flagged at the exit node
EveryUnassignedUseBeforeExitFlaggedWitness ==
    /\ pc = "checked"
    /\ \E n \in CodeNodes \ {flow.exit} : \E i \in 1..Len(flow.variableOccurrences[n]) :
          /\ unassignedOnSomePath(flow, n, i)
          /\ flow.exit \in reachableFrom(flow.exits, {n})
          /\ occurrenceAt(n, i) \in flaggedAtExit
          /\ \E m \in CodeNodes : \E j \in 1..Len(flow.variableOccurrences[m]) :
                flow.variableOccurrences[m][j].kind = "Assignment"

\* TRUE iff some diagnostic of the given code was emitted for a location that
\* covers _location
coveredBy(_code, _location) ==
    \E k \in 1..Len(errors) :
        /\ errors[k].code = _code
        /\ errors[k].location.start <= _location.start
        /\ _location.end <= errors[k].location.end

\* C3 as stated: on a fresh analyzer checkUnreachable reports every node that
\* has a valid location and cannot be reached from the entry node, whether or
\* not the node has a path to exit, revert or transactionReturn.
EveryUnreachableNodeReported ==
    pc = "checked" =>
        \A n \in DOMAIN flow.exits :
            (/\ isValid(flow.location[n])
             /\ n \notin reachableFrom(flow.exits, {flow.entry}))
                => coveredBy(5740, flow.location[n])

\* C3 amended: on a fresh analyzer checkUnreachable reports every node that
\* has a valid location, cannot be reached from the entry node and has a path
\* to exit, revert or transactionReturn.
EveryUnreachableNodeBeforeSinkReported ==
    pc = "checked" =>
        \A n \in DOMAIN flow.exits :
            (/\ isValid(flow.location[n])
             /\ n \notin reachableFrom(flow.exits, {flow.entry})
             /\ reachableFrom(flow.exits, {n})
                    \intersect {flow.exit, flow.revert, flow.transactionReturn} # {})
                => coveredBy(5740, flow.location[n])

\* two dead blocks with separate locations, one leading to the revert node
\* only, were both reported while the entry node reaches the exit node
EveryUnreachableNodeBeforeSinkReportedWitness ==
    /\ pc = "checked"
    /\ Len(errors) = 2
    /\ flow.exit \in reachableFrom(flow.exits, {flow.entry})
    /\ \E n \in Blocks :
          /\ isValid(flow.location[n])
          /\ n \notin reachableFrom(flow.exits, {flow.entry})
          /\ flow.exits[n] = {flow.revert}
          /\ coveredBy(5740, flow.location[n])

\* ------------------------------------------------------------------------
\* Properties of the precision guards and the operators
\* ------------------------------------------------------------------------

\* TRUE iff the exact value of _base ^ _exp (both >= 0) has more than _limit
\* bits.  A base of n bits raised to e has at least (n - 1) * e + 1 bits, which
\* decides the hopeless cases without computing the power.
powerExceedsBits(_base, _exp, _limit) ==
    IF _exp.sign = 0 \/ _base = bigint(1) THEN 1 > _limit
    ELSE IF _base.sign = 0 THEN FALSE
    ELSE IF bigCmp(bigMul(bigint(msb(_base)), _exp), bigint(_limit)) >= 0 THEN TRUE
    ELSE msb(pow(_base, bigToInt(_exp))) + 1 > _limit

\* C5: for base > 0 and exponent >= 0, fitsPrecisionExp never returns true
\* when the exact value of base ^ exponent needs more than 4096 bits.
FitsPrecisionExpSound ==
    (callee = "fitsPrecisionExp" /\ args.base.sign > 0 /\ result = TRUE)
        => ~powerExceedsBits(args.base, args.exp, bitsMax)

\* fitsPrecisionExp was asked about 2 ^ 4096, which needs 4097 bits
FitsPrecisionExpSoundWitness ==
    /\ callee = "fitsPrecisionExp"
    /\ args.base = bigint(2)
    /\ args.exp = bigint(bitsMax)
    /\ powerExceedsBits(args.base, args.exp, bitsMax)
    /\ result = FALSE

NoValueForUndefinedOperations ==
    (/\ callee = "evaluateBinaryOperator"
     /\ \/ args.operator \in {"Div", "Mod"} /\ args.right = ratZero
        \/ args.operator = "Exp" /\ args.right.denominator # bigint(1))
        => result = nullopt

\* an integer was raised to the power 1/2 and no value came back
NoValueForUndefinedOperationsWitness ==
    /\ callee = "evaluateBinaryOperator"
    /\ args.operator = "Exp"
    /\ args.left = ratInt(bigint(2))
    /\ args.right = rational(bigint(1), bigint(2))
    /\ result = nullopt

\* t is v truncated toward zero: an integer of the sign of v no further from
\* zero than v and less than one away from it
isTruncationOf(t, v) ==
    /\ t.denominator = bigint(1)
    /\ t.numerator.sign * v.numerator.sign >= 0
    /\ ratCmp([numerator |-> abs(t.numerator), denominator |-> bigint(1)],
              [numerator |-> abs(v.numerator), denominator |-> v.denominator]) <= 0
    /\ ratCmp([numerator |-> abs(v.numerator), denominator |-> v.denominator],
              ratInt(bigAdd(abs(t.numerator), bigint(1)))) < 0

inRange(v, _type) == ratCmp(minValue(_type), v) <= 0 /\ ratCmp(v, maxValue(_type)) <= 0

\* C8: convertType into a bounded integer type yields a result exactly when
\* min <= v <= max, and the stored value is then v truncated toward zero, an
\* integer within [min, max], typed with the target type.
ConvertTypeIntegerRange ==
    (callee = "convertType" /\ args.type.category = "Integer")
        => /\ result.has <=> inRange(args.value, args.type)
           /\ result.has => /\ result.value.type = args.type
                            /\ isTruncationOf(result.value.value, args.value)
                            /\ inRange(result.value.value, args.type)

\* the upper limit of a type was converted into it, and so was a negative
\* fraction into a signed type
ConvertTypeIntegerRangeWitness ==
    /\ callee = "convertType"
    /\ args.type.category = "Integer"
    /\ result.has
    /\ \/ args.value = maxValue(args.type)
       \/ args.value.denominator # bigint(1) /\ args.value.numerator.sign < 0

\* C9: shifting a non-negative integer x left by s, 0 <= s <= 2^32 - 1, and
\* the result right by s gives x back, whenever the left shift is not
\* rejected by the precision guard.
ShiftRoundTrip ==
    (/\ callee = "evaluateBinaryOperator"
     /\ prev # noCall
     /\ prev.args.operator = "SHL"
     /\ args.operator = "SAR"
     /\ prev.args.left.numerator.sign >= 0)
        => result = Some(prev.args.left)

\* a positive x was shifted left by at least 4093 and back
ShiftRoundTripWitness ==
    /\ callee = "evaluateBinaryOperator"
    /\ prev # noCall
    /\ prev.args.operator = "SHL"
    /\ args.operator = "SAR"
    /\ prev.args.left.numerator.sign > 0
    /\ bigCmp(args.right.numerator, bigint(bitsMax - MaxSmall)) >= 0
    /\ args.left = prev.result.value
    /\ result = Some(prev.args.left)

\* ------------------------------------------------------------------------
\* Properties of the evaluator
\* ------------------------------------------------------------------------

\* the declarations that the identifiers in the initializer of d refer to
references(d) ==
    {o \in Declarations :
        \E r \in {"value", "left", "right"} :
            /\ <<d, r>> \in DOMAIN ast
            /\ ast[<<d, r>>] = Identifier(<<o, "declaration">>)}

\* the declarations with an initializer, and those with a resolved type too
Initialized == {d \in Declarations : ast[<<d, "declaration">>].value # NoNode}

Resolved == {d \in Initialized : ast[<<d, "declaration">>].type # NoType}

\* the declarations reached from those in S by references out of the
\* initializers of the declarations in T
RECURSIVE referencedFrom(_, _)
referencedFrom(S, T) ==
    LET next == S \union UNION {references(d) : d \in S \intersect T}
    IN  IF next = S THEN S ELSE referencedFrom(next, T)

\* the constant whose initializer is evaluated refers back to itself
refersBackToItself == root[1] \in referencedFrom(references(root[1]), Initialized)

\* the evaluation of root reaches, through declarations with an initializer
\* and a resolved type only, such a declaration that refers back to itself
reachesResolvedCycle ==
    \E d \in referencedFrom(references(root[1]), Resolved) \intersect Resolved :
        d \in referencedFrom(references(d), Resolved)

cyclicReported ==
    /\ status = "fatal"
    /\ errors # <<>>
    /\ errors[Len(errors)].code = 5210
    /\ m_depth = maxDepth + 1

\* C4 as stated: the evaluation of a constant that refers back to itself
\* through other constants does not return; it ends with the fatal error
\* for a cyclic constant definition.
CyclicConstantNeverReturns ==
    (status = "returned" /\ refersBackToItself) => FALSE

\* C4 amended: every evaluation terminates and never nests deeper than one
\* past the limit of 32; when the evaluation reaches, through constants that
\* all have an initializer and a resolved type, a constant that refers back
\* to itself, it ends with the fatal error for a cyclic constant definition,
\* raised at nesting depth 33.
ResolvedCyclicConstantEndsFatal ==
    /\ [](m_depth <= maxDepth + 1)
    /\ [](status = "fatal" /\ reachesResolvedCycle => cyclicReported)
    /\ (status = "running") ~> (status \in {"returned", "fatal"})
    /\ (status = "running" /\ reachesResolvedCycle) ~> cyclicReported

\* a = b and b = a, both of type uint8, ended with the fatal error at depth 33
ResolvedCyclicConstantEndsFatalWitness ==
    /\ status = "fatal"
    /\ ast[<<"a", "value">>] = Identifier(<<"b", "declaration">>)
    /\ ast[<<"b", "value">>] = Identifier(<<"a", "declaration">>)
    /\ reachesResolvedCycle
    /\ cyclicReported
    /\ Len(errors) = 1

\* both calls of the static evaluate are over
evaluatedTwice == firstRun # noRun /\ status \in {"returned", "fatal"}

sameOutcomeTwice ==
    /\ status = firstRun.status
    /\ ret = firstRun.ret
    /\ m_values = firstRun.m_values

analysedFlows == {m_cfg[k].flow : k \in {j \in 1..analyzed : m_cfg[j].isImplemented}}

\* the nodes of _flow with a valid location that cannot be reached from the
\* entry node and lead to exit, revert or transactionReturn
deadNodes(_flow) ==
    {n \in DOMAIN _flow.exits :
        /\ isValid(_flow.location[n])
        /\ n \notin reachableFrom(_flow.exits, {_flow.entry})
        /\ reachableFrom(_flow.exits, {n})
               \intersect {_flow.exit, _flow.revert, _flow.transactionReturn} # {}}

\* the source range that _span grows to when the locations of dead nodes that
\* overlap or touch it are added to it
RECURSIVE mergedSpan(_, _)
mergedSpan(_flow, _span) ==
    LET joined == {_flow.location[m] : m \in {d \in deadNodes(_flow) :
                        /\ _flow.location[d].start <= _span.end
                        /\ _span.start <= _flow.location[d].end}}
        grown == [start |-> begin({_span.start} \union {l.start : l \in joined}),
                  end |-> 0 - begin({0 - _span.end} \union {0 - l.end : l \in joined})]
    IN  IF grown = _span THEN _span ELSE mergedSpan(_flow, grown)

\* the positions of the unreachable-code warnings that cover _location
unreachableWarningsCovering(_location) ==
    {k \in 1..Len(errors) :
        /\ errors[k].code = 5740
        /\ errors[k].location.start <= _location.start
        /\ _location.end <= errors[k].location.end}

\* no two unreachable-code warnings are for the same source range
UnreachableWarnedOncePerRange ==
    \A i, j \in 1..Len(errors) :
        (i # j /\ errors[i].code = 5740 /\ errors[j].code = 5740)
            => errors[i].location # errors[j].location

\* every dead node of an analysed function is covered by exactly one
\* warning, and that warning is for the merged span of the node
DeadBlockWarnedOnceForSpan ==
    \A f \in analysedFlows : \A n \in deadNodes(f) :
        /\ Cardinality(unreachableWarningsCovering(f.location[n])) = 1
        /\ \A k \in unreachableWarningsCovering(f.location[n]) :
              errors[k].location = mergedSpan(f, f.location[n])

\* checkUnreachable is called for a function flow that was analysed before
analysesFlowAgain ==
    /\ pc = "unreachable"
    /\ pc' # "unreachable"
    /\ flow \in analysedFlows

\* C11: over the checkUnreachable calls on one analyzer, an unreachable-code
\* warning for a given merged source range is emitted at most once; analysing
\* the same function flow a second time emits no further warning; and a dead
\* block whose nodes all lead to a sink is reported as exactly one warning
\* that covers its merged span.
UnreachableWarnedOnce ==
    /\ [](UnreachableWarnedOncePerRange /\ DeadBlockWarnedOnceForSpan)
    /\ [][analysesFlowAgain => errors' = errors]_vars

\* the function was analysed twice; its branch and the node after it are dead,
\* touch each other and lead to the exit node, and the one warning is for
\* the span of both
UnreachableWarnedOnceWitness ==
    /\ pc = "returned"
    /\ Len(m_cfg) = 2
    /\ m_cfg[1] = m_cfg[2]
    /\ m_cfg[1].isImplemented
    /\ deadNodes(m_cfg[1].flow) = {3, 6}
    /\ m_cfg[1].flow.location[6].start = m_cfg[1].flow.location[3].end
    /\ \E k \in 1..Len(errors) :
          /\ errors[k].code = 5740
          /\ errors[k].location = [start |-> 0, end |-> 2]
          /\ \A j \in 1..Len(errors) : errors[j].code = 5740 => j = k

\* the step of checkUninitializedAccess that reports the flagged accesses
reportsAccesses == pc = "traverse" /\ pc' # "traverse"

\* the diagnostics handed to the error reporter by the step
reportedByStep == SubSeq(errors', Len(errors) + 1, Len(errors'))

\* the occurrence that a flagged access stands for
flaggedOccurrence(a) == flow.variableOccurrences[a.node][a.index]

\* the flagged accesses at the exit node whose variable is of a storage- or
\* calldata-located type
flaggedPointerAccesses ==
    {a \in flaggedAtExit' : \/ flaggedOccurrence(a).declaration.isStorage
                            \/ flaggedOccurrence(a).declaration.isCalldata}

\* the unnamed variables of another type flagged at the exit node of a
\* function whose body is not empty
flaggedUnnamedDeclarations ==
    {flaggedOccurrence(a).declaration :
        a \in {b \in flaggedAtExit' \ flaggedPointerAccesses :
                  ~flow.emptyBody /\ flaggedOccurrence(b).declaration.name = ""}}

\* the location an error for the occurrence is expected at
expectedErrorLocation(_occurrence) ==
    IF _occurrence.occurrence = nullopt THEN _occurrence.declaration.location
    ELSE _occurrence.occurrence.value

\* C12: for the flagged accesses at the exit node, checkUninitializedAccess
\* reports one hard error per access to a variable of storage- or
\* calldata-located type, whether the body is empty or not and whether the
\* variable is named or not; for a variable of another type it reports a warning
\* when the body is not empty and the variable is unnamed (one per
\* declaration, unless the declaration was warned about before); and it
\* reports nothing else, so nothing for a named variable of another type or
\* for an empty body.
ReportClassifiesAccesses ==
    [][reportsAccesses =>
        /\ \E h \in [flaggedPointerAccesses -> 1..Len(reportedByStep)] :
              /\ \A a, b \in flaggedPointerAccesses : a # b => h[a] # h[b]
              /\ \A a \in flaggedPointerAccesses :
                    /\ reportedByStep[h[a]].code = 3464
                    /\ reportedByStep[h[a]].severity = "error"
                    /\ reportedByStep[h[a]].location
                           = expectedErrorLocation(flaggedOccurrence(a))
        /\ Cardinality({k \in 1..Len(reportedByStep) : reportedByStep[k].code = 3464})
               = Cardinality(flaggedPointerAccesses)
        /\ \A d \in flaggedUnnamedDeclarations :
              Cardinality({k \in 1..Len(reportedByStep) :
                              /\ reportedByStep[k].code = 6321
                              /\ reportedByStep[k].severity = "warning"
                              /\ reportedByStep[k].location = d.location})
                  = IF d \in m_unassignedReturnVarsAlreadyWarnedFor THEN 0 ELSE 1
        /\ \A k \in 1..Len(reportedByStep) :
              \/ reportedByStep[k].code = 3464
              \/ /\ reportedByStep[k].code = 6321
                 /\ \E d \in flaggedUnnamedDeclarations :
                       reportedByStep[k].location = d.location
      ]_vars

\* the report found an access to the unnamed calldata return variable of a
\* function with an empty body and made it an error
ReportClassifiesAccessesWitness ==
    /\ pc = "unreachable"
    /\ flow.emptyBody
    /\ \E a \in flaggedAtExit :
          /\ flow.variableOccurrences[a.node][a.index].declaration.isCalldata
          /\ flow.variableOccurrences[a.node][a.index].declaration.name = ""
          /\ errors # <<>>
          /\ errors[Len(errors)].code = 3464
          /\ errors[Len(errors)].severity = "error"

\* the nodes with more than one predecessor from which the node n can be
\* reached in any number of steps
mergeNodesBefore(_flow, n) ==
    {m \in DOMAIN _flow.exits :
        /\ Cardinality({p \in DOMAIN _flow.exits : m \in _flow.exits[p]}) >= 2
        /\ n \in reachableFrom(_flow.exits, {m})}

\* the variable is unassigned at the exit of a predecessor of the node m on
\* some path from the entry node
unassignedAtMerge(_flow, m, _variable) ==
    \E s \in pathStates(_flow, {<<_flow.entry, {}>>}) : s[1] = m /\ _variable \in s[2]

\* the reads of a storage pointer in or after a merge node that the variable
\* reaches unassigned, in a node that leads to the exit node
readsAfterMerge(_flow) ==
    {a \in UNION {{[node |-> n, index |-> i] :
                      i \in 1..Len(_flow.variableOccurrences[n])} :
                  n \in DOMAIN _flow.exits} :
        /\ _flow.variableOccurrences[a.node][a.index].kind = "Access"
        /\ _flow.variableOccurrences[a.node][a.index].declaration.isStorage
        /\ \E m \in mergeNodesBefore(_flow, a.node) :
              unassignedAtMerge(_flow, m,
                  _flow.variableOccurrences[a.node][a.index].declaration)
        /\ unassignedOnSomePath(_flow, a.node, a.index)
        /\ _flow.exit \in reachableFrom(_flow.exits, {a.node})}

\* C13: a storage pointer that is unassigned at the exit of a predecessor of
\* a merge node and is read in or after the merge node, still unassigned, on
\* a path to the exit node: the read is flagged and reported as an error whose
\* location is the read and whose secondary location is a note at the
\* declaration of the variable.
UnassignedReadAfterMergeIsError ==
    pc = "unreachable" =>
        \A a \in readsAfterMerge(flow) :
            /\ a \in flaggedAtExit
            /\ \E k \in 1..Len(errors) :
                  /\ errors[k].code = 3464
                  /\ errors[k].severity = "error"
                  /\ errors[k].location
                         = flow.variableOccurrences[a.node][a.index].occurrence.value
                  /\ Len(errors[k].secondary) = 1
                  /\ errors[k].secondary[1].location
                         = flow.variableOccurrences[a.node][a.index].declaration.location

\* the storage pointer is declared in the branch only, the branch and the
\* entry node both lead to the node that reads it, and the error is at the
\* read with the note at the declaration
UnassignedReadAfterMergeIsErrorWitness ==
    /\ pc = "unreachable"
    /\ flow.exits[1] = {3, 6}
    /\ 6 \in flow.exits[3]
    /\ flow.exits[6] = {2}
    /\ Len(flow.variableOccurrences[3]) = 1
    /\ flow.variableOccurrences[3][1].kind = "Declaration"
    /\ [node |-> 6, index |-> 1] \in readsAfterMerge(flow)
    /\ \E k \in 1..Len(errors) :
          /\ errors[k].code = 3464
          /\ errors[k].location = occurrenceLocation(6, 1)
          /\ errors[k].secondary
                 = <<[message |-> "The variable was declared here.",
                      location |-> [start |-> 10, end |-> 11]]>>

\* the uses in the function flow that the analysis has to flag: the variable
\* is unassigned there on some path and the node leads to the exit node
usesToFlag(_flow) ==
    {a \in UNION {{[node |-> n, index |-> i] :
                      i \in 1..Len(_flow.variableOccurrences[n])} :
                  n \in DOMAIN _flow.exits} :
        /\ unassignedOnSomePath(_flow, a.node, a.index)
        /\ _flow.exit \in reachableFrom(_flow.exits, {a.node})}

\* the diagnostics that the two checks have to leave for the function flow
\* are among the diagnostics reported: an error for every flagged use of a
\* storage or calldata variable and a warning over every dead node
flowWasAnalysed(_flow) ==
    /\ \A a \in usesToFlag(_flow) :
          LET _occurrence == _flow.variableOccurrences[a.node][a.index]
          IN  (_occurrence.declaration.isStorage \/ _occurrence.declaration.isCalldata)
                 => \E k \in 1..Len(errors) :
                       /\ errors[k].code = 3464
                       /\ errors[k].severity = "error"
                       /\ errors[k].location = expectedErrorLocation(_occurrence)
    /\ \A n \in deadNodes(_flow) : unreachableWarningsCovering(_flow.location[n]) # {}

\* some diagnostic reported is an error or worse
errorOrWorseReported ==
    \E k \in 1..Len(errors) : errors[k].severity \in {"error", "fatal"}

\* C14: run() analyses every function flow of the graph that has an
\* implementation, also the ones after a function for which an error was
\* reported, and returns only then; it returns true exactly when no
\* diagnostic that is an error or worse was reported, so also when only
\* warnings were reported.
RunAnalysesAllAndReturnsNoErrors ==
    /\ [](pc = "returned" =>
            /\ analyzed = Len(m_cfg)
            /\ \A k \in 1..Len(m_cfg) :
                  m_cfg[k].isImplemented => flowWasAnalysed(m_cfg[k].flow)
            /\ runResult = ~errorOrWorseReported)
    /\ [][(pc # "returned" /\ pc' = "returned") => analyzed = Len(m_cfg)]_vars

\* the first function got an error, the second one was analysed all the
\* same and got a warning, and run() returned false
RunAnalysesAllAndReturnsNoErrorsWitness ==
    /\ pc = "returned"
    /\ Len(m_cfg) = 2
    /\ m_cfg[1].flow = otherFlow
    /\ Len(errors) = 3
    /\ errors[1].code = 3464
    /\ errors[1].location = [start |-> 30, end |-> 31]
    /\ errors[2].code = 5740
    /\ errors[2].location = [start |-> 40, end |-> 41]
    /\ errors[3].code = 6321
    /\ usesToFlag(m_cfg[2].flow) # {}
    /\ runResult = FALSE

\* the positions of the warnings that the return variable declared at
\* _location can remain unassigned
unassignedReturnWarnings(_location) ==
    {k \in 1..Len(errors) : errors[k].code = 6321 /\ errors[k].location = _location}

\* C19: over all calls of checkUninitializedAccess on one analyzer, at most
\* one warning that an unnamed return variable can remain unassigned is
\* reported per variable declaration, also when several occurrences of the
\* variable are flagged and when the declaration is flagged again in a later
\* function flow.
UnassignedReturnWarnedOnce ==
    \A f \in {m_cfg[k].flow : k \in 1..Len(m_cfg)} : \A d \in declarationsOf(f) :
        Cardinality(unassignedReturnWarnings(d.location)) <= 1

\* the function was analysed twice, a read of its unnamed return variable and
\* the return at its end were flagged both times, and there is one warning
UnassignedReturnWarnedOnceWitness ==
    /\ pc = "returned"
    /\ Len(m_cfg) = 2
    /\ m_cfg[1] = m_cfg[2]
    /\ m_cfg[1].isImplemented
    /\ ~m_cfg[1].flow.emptyBody
    /\ Cardinality(usesToFlag(m_cfg[1].flow)) = 2
    /\ \A a \in usesToFlag(m_cfg[1].flow) :
          LET d == m_cfg[1].flow.variableOccurrences[a.node][a.index].declaration
          IN  /\ d.name = ""
              /\ ~d.isStorage
              /\ ~d.isCalldata
              /\ Cardinality(unassignedReturnWarnings(d.location)) = 1

\* ------------------------------------------------------------------------
\* Properties of the evaluator's cache, depth counter and visit handlers
\* ------------------------------------------------------------------------

\* a visit handler is running for the node, or evaluate is evaluating the
\* initializer of the node
beingEvaluated(_node) ==
    \E k \in 1..Len(stack) :
        /\ stack[k].node = _node
        /\ stack[k].function # "evaluate" \/ stack[k].at = "initializer"

\* no visit handler runs for a node that has a cache entry
NoHandlerForCachedNode == \A n \in DOMAIN m_values : ~beingEvaluated(n)

\* while an evaluator is at work the cache entries stay as they are
cacheEntriesKept ==
    status = "running" =>
        \A n \in DOMAIN m_values : n \in DOMAIN m_values' /\ m_values'[n] = m_values[n]

\* the node that gets a cache entry is the one whose evaluation is about to
\* return
cachedWhenEvaluated ==
    status = "running" =>
        \A n \in (DOMAIN m_values') \ (DOMAIN m_values) : n = Head(stack).node

chainLength == (Cardinality(DOMAIN ast) - 1) \div 2

\* the number of initializers that evaluate is evaluating
initializersUnderEvaluation ==
    Cardinality({k \in 1..Len(stack) :
                    stack[k].function = "evaluate" /\ stack[k].at = "initializer"})

\* the depth counter is incremented only when evaluate enters the
\* initializer of a constant that has no cache entry yet
depthIncrementedOnEntering ==
    (status = "running" /\ m_depth' = m_depth + 1) =>
        /\ Head(stack).function = "evaluate"
        /\ Head(stack).at = "entry"
        /\ ast[Head(stack).node].kind = "VariableDeclaration"
        /\ ast[Head(stack).node].value # NoNode
        /\ Head(stack).node \notin DOMAIN m_values

\* the depth counter is decremented when the evaluation of an initializer
\* returns, and only then
depthDecrementedOnReturn ==
    status = "running" =>
        ((m_depth' = m_depth - 1)
             <=> (Head(stack).function = "evaluate" /\ Head(stack).at = "initializer"))

\* the depth counter changes in steps of one
depthChangesByOne ==
    status = "running" => m_depth' \in {m_depth - 1, m_depth, m_depth + 1}

\* C16 as stated: in every reachable state of an evaluator the depth counter
\* is at most 32; it is incremented only on entering the initializer of a
\* constant and decremented when that evaluation returns.
DepthAtMost32 ==
    /\ [](m_depth <= 32)
    /\ [][depthIncrementedOnEntering /\ depthDecrementedOnReturn /\ depthChangesByOne]_vars

\* C16 amended: the depth counter is at most 32 in every state in which the
\* evaluation goes on, where it is the number of initializers being
\* evaluated, and it is 33 in the state in which the fatal error is raised;
\* it is incremented only on entering the initializer of a constant and
\* decremented when that evaluation returns.
DepthAtMost32WhileEvaluating ==
    /\ [](/\ m_depth <= 33
          /\ status = "running" => (m_depth <= 32 /\ m_depth = initializersUnderEvaluation)
          /\ status = "fatal" => m_depth = 33)
    /\ [][depthIncrementedOnEntering /\ depthDecrementedOnReturn /\ depthChangesByOne]_vars

\* the initializer of the 33rd constant of a chain was about to be entered:
\* the counter is 33 and the fatal error was raised
DepthAtMost32WhileEvaluatingWitness ==
    /\ status = "fatal"
    /\ m_depth = 33
    /\ chainLength >= 33
    /\ errors # <<>>
    /\ errors[Len(errors)].code = 5210

\* the evaluation has ended with the value of the literal at the end of the
\* chain and without a diagnostic
chainSucceeded ==
    /\ ret.has
    /\ ret.value.value = ratInt(bigint(1))
    /\ errors = <<>>

\* the evaluation was abandoned with the fatal error at the 33rd constant
chainRejected ==
    /\ errors # <<>>
    /\ \A k \in 1..Len(errors) :
          /\ errors[k].code = 5210
          /\ errors[k].severity = "fatal"
          /\ errors[k].location = <<33, "declaration">>

\* the steps that a call on the stack has still to take: an evaluate that
\* has not looked at its node yet takes two steps for a declaration and four
\* for an expression, a handler that has not started two, every other call one
stepsOfFrame(_frame) ==
    IF _frame.at # "entry" THEN 1
    ELSE IF _frame.function # "evaluate" THEN 2
    ELSE IF ast[_frame.node].kind = "VariableDeclaration" THEN 2
    ELSE 4

RECURSIVE stepsOfStack(_)
stepsOfStack(_stack) ==
    IF _stack = <<>> THEN 0 ELSE stepsOfFrame(Head(_stack)) + stepsOfStack(Tail(_stack))

\* the steps that the evaluation has still to take at most: the steps of the
\* calls on the stack and of the nodes that no call was made for yet
stepsLeft ==
    LET untouched == {n \in DOMAIN ast :
                         /\ n \notin DOMAIN m_values
                         /\ \A k \in 1..Len(stack) : stack[k].node # n}
    IN  stepsOfStack(stack)
            + 2 * Cardinality({n \in untouched : ast[n].kind = "VariableDeclaration"})
            + 4 * Cardinality({n \in untouched : ast[n].kind # "VariableDeclaration"})

\* the call on top of the stack is one that takes a step
takesStep ==
    /\ stack # <<>>
    /\ <<Head(stack).function, Head(stack).at>>
           \in {<<"evaluate", "entry">>, <<"evaluate", "initializer">>,
                 <<"evaluate", "visited">>, <<"Literal", "entry">>,
                 <<"Identifier", "entry">>, <<"Identifier", "declaration">>}

\* C17: the evaluation of a reference to the first constant of a chain
\* without a cycle ends (no call is ever stuck and every step leaves fewer
\* steps to take); it succeeds when the chain has at most 32 constants, and
\* with more it raises the fatal error of code 5210 at the 33rd constant,
\* whose initializer is never evaluated.
ChainSucceedsUpTo32 ==
    /\ [](status = "running" => takesStep)
    /\ [][(status = "running" /\ status' = "running") => stepsLeft' < stepsLeft]_vars
    /\ [](status = "returned" => (chainLength <= 32 /\ chainSucceeded))
    /\ [](status = "fatal" => (chainLength > 32 /\ chainRejected))
    /\ [](\A k \in 1..Len(stack) : stack[k].node # <<33, "value">>)

\* the chain of 32 constants was evaluated
ChainSucceedsUpTo32Witness ==
    /\ status = "returned"
    /\ chainLength = 32
    /\ chainSucceeded
    /\ m_depth = 0

\* a visit handler of an operation has its operands and is about to end
operationEnds ==
    /\ status = "running"
    /\ \/ Head(stack).function = "UnaryOperation" /\ Head(stack).at = "operand"
       \/ Head(stack).function = "BinaryOperation" /\ Head(stack).at = "right"

\* the operands of that operation, converted to its result type
operandsOfOperation ==
    LET _resultType == ast[Head(stack).node].resultType
    IN  IF Head(stack).function = "UnaryOperation"
        THEN <<convertTypeOpt(ret, _resultType)>>
        ELSE <<convertTypeOpt(Head(stack).left, _resultType),
               convertTypeOpt(ret, _resultType)>>

\* the operator of that operation is applied to the operands: each operand
\* has a value of the result type and the operator is not a comparison
operatorApplied ==
    /\ operationEnds
    /\ ast[Head(stack).node].operator # "LessThan"
    /\ \A k \in 1..Len(operandsOfOperation) : operandsOfOperation[k].has

\* what the operator gives for the operands
operatorResult ==
    IF Head(stack).function = "UnaryOperation"
    THEN evaluateUnaryOperator(ast[Head(stack).node].operator,
                               operandsOfOperation[1].value.value)
    ELSE evaluateBinaryOperator(ast[Head(stack).node].operator,
                                operandsOfOperation[1].value.value,
                                operandsOfOperation[2].value.value)

\* the handler ends without a cache entry for its node and without a
\* diagnostic, and the evaluation goes on
endsWithoutValue ==
    /\ errors' = errors
    /\ Head(stack).node \notin DOMAIN m_values'
    /\ status' = "running"

\* the handler raises the fatal arithmetic error at its node, which gets no
\* cache entry, and the evaluation is abandoned
endsWithArithmeticError ==
    /\ errors' = Append(errors,
                        [code |-> IF Head(stack).function = "UnaryOperation"
                                  THEN 3667 ELSE 2643,
                         severity |-> "fatal",
                         location |-> Head(stack).node,
                         secondary |-> <<>>])
    /\ Head(stack).node \notin DOMAIN m_values'
    /\ status' = "fatal"

\* evaluate finds no cache entry after the handler of its node has run
visitedWithoutEntry ==
    /\ status = "running"
    /\ Head(stack).function = "evaluate"
    /\ Head(stack).at = "visited"
    /\ Head(stack).node \notin DOMAIN m_values

\* C18: in the visit of a unary or binary operation, an operator that is
\* undefined for the operand values leaves the node without a value (evaluate
\* then gives 'no value' for it) and without a diagnostic; an operator whose
\* value does not fit the result type makes the handler raise the fatal
\* arithmetic error at the operation, and the node gets no value.
OperationFailuresKeptApart ==
    /\ [][(operatorApplied /\ ~operatorResult.has) => endsWithoutValue]_vars
    /\ [][(operatorApplied /\ operatorResult.has
              /\ ~convertType(operatorResult.value, ast[Head(stack).node].resultType).has)
             => endsWithArithmeticError]_vars
    /\ [][visitedWithoutEntry
             => (ret' = nullopt /\ m_values'[Head(stack).node] = nullopt)]_vars

\* a division by the literal 0 was evaluated: no value and no diagnostic
OperationFailuresKeptApartWitness ==
    /\ status = "returned"
    /\ firstRun = noRun
    /\ ast[<<"a", "value">>].kind = "BinaryOperation"
    /\ ast[<<"a", "value">>].operator = "Div"
    /\ ast[<<"a", "left">>] = literalOf(255)
    /\ ast[<<"a", "right">>] = literalOf(0)
    /\ m_values[<<"a", "value">>] = nullopt
    /\ ret = nullopt
    /\ errors = <<>>

\* the expression the static evaluate was called for is a tuple expression
\* around one expression
rootWrapsOneExpression ==
    /\ ast[root].kind = "TupleExpression"
    /\ Len(ast[root].components) = 1

\* C20: the evaluation of a tuple expression around a single expression
\* gives what the evaluation of that expression gives: the same typed value
\* or, like it, no value.
TupleYieldsInnerValue ==
    (status = "returned" /\ rootWrapsOneExpression) =>
        /\ ast[root].components[1] \in DOMAIN m_values
        /\ ret = m_values[ast[root].components[1]]
        /\ m_values[root] = m_values[ast[root].components[1]]

\* the parenthesized reference to the constant b with the value 255 was
\* evaluated to the value of b
TupleYieldsInnerValueWitness ==
    /\ status = "returned"
    /\ rootWrapsOneExpression
    /\ ast[<<"a", "left">>] = Identifier(<<"b", "declaration">>)
    /\ <<"b", "value">> \in DOMAIN ast
    /\ ast[<<"b", "value">>] = literalOf(255)
    /\ ret.has
    /\ ret.value.value = ratInt(bigint(255))
    /\ ret = m_values[<<"b", "declaration">>]

\* ------------------------------------------------------------------------
\* Properties of the fixpoint of checkUninitializedAccess
\* ------------------------------------------------------------------------

\* every set of the NodeInfo _before is contained in the set of _after
nodeInfoGrows(_before, _after) ==
    /\ _before.unassignedVariablesAtEntry \subseteq _after.unassignedVariablesAtEntry
    /\ _before.unassignedVariablesAtExit \subseteq _after.unassignedVariablesAtExit
    /\ _before.uninitializedVariableAccesses \subseteq _after.uninitializedVariableAccesses

\* C21: during the work-list loop of checkUninitializedAccess a NodeInfo
\* stays in the map once it is there, and none of its three sets loses an
\* element: the variables unassigned at entry, the variables unassigned at
\* exit (replaced at every visit of the node) and the flagged accesses.
NodeInfosOnlyGrow ==
    [][pc = "traverse" =>
          \A n \in DOMAIN nodeInfos :
              /\ n \in DOMAIN nodeInfos'
              /\ nodeInfoGrows(nodeInfos[n], nodeInfos'[n])]_vars

\* the loop has ended on a flow in which a node other than the entry node
\* leads back to itself or to a node before it, and the variables unassigned
\* at its entry are more than those at the exit of one of its predecessors:
\* the set grew when the other predecessor was merged
NodeInfosOnlyGrowWitness ==
    /\ pc = "checked"
    /\ \E n \in DOMAIN nodeInfos : \E p, q \in DOMAIN nodeInfos :
          /\ p # q
          /\ n \in flow.exits[p]
          /\ n \in flow.exits[q]
          /\ nodeInfos[p].unassignedVariablesAtExit = {}
          /\ nodeInfos[q].unassignedVariablesAtExit # {}
          /\ nodeInfos[n].unassignedVariablesAtEntry # {}
          /\ nodeInfos[n].unassignedVariablesAtExit # {}
          /\ nodeInfos[n].uninitializedVariableAccesses # {}

\* the variables unassigned after the occurrences of node n when the
\* variables of U are unassigned before them
unassignedAfterNode(_flow, n, U) ==
    {v \in declarationsOf(_flow) \union U :
        unassignedAfter(_flow.variableOccurrences[n], Len(_flow.variableOccurrences[n]), U, v)}

\* the work-list loop has ended and the report has not begun
workListDrained == pc = "traverse" /\ nodesToTraverse = {}

\* C22: when the work-list of checkUninitializedAccess is empty, every node
\* that can be reached from the entry node has a NodeInfo; for every node with
\* a NodeInfo the variables unassigned at exit are those that the occurrences
\* of the node leave unassigned when started with the variables unassigned at
\* entry; and along every edge n -> s from such a node, the variables
\* unassigned at the exit of n are unassigned at the entry of s and the
\* flagged accesses of n are flagged accesses of s.
DrainedWorkListIsFixpoint ==
    workListDrained =>
        /\ reachableFrom(flow.exits, {flow.entry}) \subseteq DOMAIN nodeInfos
        /\ \A n \in DOMAIN nodeInfos :
              /\ nodeInfos[n].unassignedVariablesAtExit
                     = unassignedAfterNode(flow, n, nodeInfos[n].unassignedVariablesAtEntry)
              /\ \A s \in flow.exits[n] :
                    /\ s \in DOMAIN nodeInfos
                    /\ nodeInfos[n].unassignedVariablesAtExit
                           \subseteq nodeInfos[s].unassignedVariablesAtEntry
                    /\ nodeInfos[n].uninitializedVariableAccesses
                           \subseteq nodeInfos[s].uninitializedVariableAccesses

\* the work-list is empty on a flow with a loop through three nodes in which
\* an access was flagged and handed on around the loop
DrainedWorkListIsFixpointWitness ==
    /\ workListDrained
    /\ Cardinality(DOMAIN nodeInfos) >= 3
    /\ \E n \in DOMAIN nodeInfos : \E s \in flow.exits[n] :
          /\ s # n
          /\ n \in reachableFrom(flow.exits, {s})
          /\ nodeInfos[n].uninitializedVariableAccesses # {}
          /\ nodeInfos[s].uninitializedVariableAccesses
                 = nodeInfos[n].uninitializedVariableAccesses

\* C23: in whatever order the nodes are taken from the work-list of
\* checkUninitializedAccess, the NodeInfo of every node is, when the
\* work-list is empty, what it is when the nodes are taken in the order of
\* their numbers; so the flagged accesses found at the exit node are the same
\* for every order.
FixpointIndependentOfOrder ==
    workListDrained => nodeInfos = workListLoop(flow, <<>>, {flow.entry})

\* the work-list is empty on a flow in which the entry node has two
\* successors, one leading to the other, so that either can be taken first,
\* and an access of the first was flagged at the exit node
FixpointIndependentOfOrderWitness ==
    /\ workListDrained
    /\ \E n, m \in flow.exits[flow.entry] :
          /\ n # m
          /\ n # flow.entry
          /\ m # flow.entry
          /\ m \in flow.exits[n]
          /\ n \in DOMAIN nodeInfos
          /\ \E a \in nodeInfos[n].uninitializedVariableAccesses : a.node = n
    /\ flow.exit \in DOMAIN nodeInfos
    /\ nodeInfos[flow.exit].uninitializedVariableAccesses # {}

\* ------------------------------------------------------------------------
\* Properties of checkUnreachable
\* ------------------------------------------------------------------------

\* the step that is one call of checkUnreachable
checksUnreachable == pc = "unreachable" /\ pc' # "unreachable"

\* the locations that the call records: those of the dead nodes
recordedLocations == {flow.location[n] : n \in deadNodes(flow)}

\* the ranges that the recorded locations coalesce to
coalescedRanges == {mergedSpan(flow, l) : l \in recordedLocations}

\* the source positions from the start of the range up to its end
cellsOf(_location) == _location.start .. (_location.end - 1)

\* C24: within one call of checkUnreachable the recorded locations are
\* coalesced in the order of their start: a location joins the current range
\* exactly when it starts at or before the end of the range, also when it
\* only touches it. The warnings of the call are, in that order, for the
\* coalesced ranges that were not warned about before; each starts after the
\* end of the one before it; and the coalesced ranges cover the source
\* positions that the recorded locations cover.
UnreachableLocationsCoalesced ==
    [][checksUnreachable =>
          /\ \A k \in 1..Len(reportedByStep) :
                /\ reportedByStep[k].code = 5740
                /\ reportedByStep[k].severity = "warning"
          /\ {reportedByStep[k].location : k \in 1..Len(reportedByStep)}
                 = coalescedRanges \ m_unreachableLocationsAlreadyWarnedFor
          /\ \A i, j \in 1..Len(reportedByStep) :
                i < j => reportedByStep[i].location.end < reportedByStep[j].location.start
          /\ coalescedRanges \subseteq m_unreachableLocationsAlreadyWarnedFor'
          /\ UNION {cellsOf(l) : l \in coalescedRanges}
                 = UNION {cellsOf(l) : l \in recordedLocations}
      ]_vars

\* three dead blocks at [0,1], [1,2] and [3,3]: the first two touch and were
\* reported as one range, the third was reported on its own
UnreachableLocationsCoalescedWitness ==
    /\ pc = "checked"
    /\ 7 \in DOMAIN flow.exits
    /\ {flow.location[n] : n \in {3, 6, 7}}
           = {[start |-> 0, end |-> 1], [start |-> 1, end |-> 2], [start |-> 3, end |-> 3]}
    /\ Len(errors) = 2
    /\ errors[1].location = [start |-> 0, end |-> 2]
    /\ errors[2].location = [start |-> 3, end |-> 3]

\* the unreachable-code warnings reported so far
unreachableWarnings == {k \in 1..Len(errors) : errors[k].code = 5740}

\* C25: checkUnreachable records the location of a node only if the node has
\* a valid location, is not reached by the forward search from the entry
\* node, and is reached by the backward search from exit, revert or
\* transactionReturn. The recorded set is the set of the locations of these
\* nodes, so a warning starts where such a node starts, ends where such a
\* node ends and covers only source positions of such nodes; the entry node
\* and the other nodes reachable from it add nothing to the report.
OnlyDeadNodesRecorded ==
    /\ unreachableLocations(flow) = recordedLocations
    /\ pc = "checked" =>
          \A k \in unreachableWarnings :
              /\ \E n \in deadNodes(flow) : flow.location[n].start = errors[k].location.start
              /\ \E n \in deadNodes(flow) : flow.location[n].end = errors[k].location.end
              /\ cellsOf(errors[k].location)
                     \subseteq UNION {cellsOf(flow.location[n]) : n \in deadNodes(flow)}

\* the entry node has a location and leads to a block with a location, a dead
\* block at other positions leads to the exit node, and the one warning is for
\* the dead block
OnlyDeadNodesRecordedWitness ==
    /\ pc = "checked"
    /\ flow.location[flow.entry] = [start |-> 0, end |-> 1]
    /\ 3 \in flow.exits[flow.entry]
    /\ flow.location[3] = [start |-> 1, end |-> 2]
    /\ flow.exit \in flow.exits[6]
    /\ deadNodes(flow) = {6}
    /\ flow.location[6] = [start |-> 2, end |-> 2]
    /\ Len(errors) = 1
    /\ errors[1].location = [start |-> 2, end |-> 2]

\* ------------------------------------------------------------------------
\* Further properties of the arithmetic
\* ------------------------------------------------------------------------

\* v = floor(x / 2^s) for integers x and s >= 0.  Where |x| < 2^n,
\* x / 2^s lies strictly between -1 and 1 for every s >= n and has the floor
\* of x / 2^n, so for an s beyond the bits of x the power is taken of their
\* number.
floorOfShift(v, x, s) ==
    LET bits == IF x.sign = 0 THEN 1 ELSE msb(abs(x)) + 1
        beyond == bigCmp(s, bigint(bits)) > 0
        p == pow(bigint(2), IF beyond THEN bits ELSE bigToInt(s))
    IN  /\ beyond => bigCmp(abs(x), p) < 0
        /\ bigCmp(bigMul(v, p), x) <= 0
        /\ bigCmp(x, bigMul(bigAdd(v, bigint(1)), p)) < 0

\* C26: for integers x and s with 0 <= s <= 2^32 - 1,
\* evaluateBinaryOperator(SAR, x, s) is floor(x / 2^s), rounded toward
\* negative infinity, also where s is beyond the most significant bit of |x|
\* (0 for x > 0, -1 for x < 0); for a fractional operand and for a negative
\* or larger s it is no value.
ShiftRightIsFloor ==
    (callee = "evaluateBinaryOperator" /\ args.operator = "SAR")
        => IF /\ args.left.denominator = bigint(1)
              /\ args.right.denominator = bigint(1)
              /\ args.right.numerator.sign >= 0
              /\ bigCmp(args.right.numerator, UInt32Max) <= 0
           THEN /\ result.has
                /\ result.value.denominator = bigint(1)
                /\ floorOfShift(result.value.numerator, args.left.numerator,
                                args.right.numerator)
           ELSE result = nullopt

\* -3 was shifted right by 1, within its significant bits, and gave -2
ShiftRightIsFloorWitness ==
    /\ callee = "evaluateBinaryOperator"
    /\ args.operator = "SAR"
    /\ args.left = ratInt(bigint(0 - 3))
    /\ args.right = ratInt(bigint(1))
    /\ result = Some(ratInt(bigint(0 - 2)))

\* b multiplied n times with itself, n a natural number
RECURSIVE powerOf(_, _)
powerOf(b, n) == IF n = 0 THEN ratOne ELSE ratMul(b, powerOf(b, n - 1))

\* e is an even integer
isEven(e) == bigMod(e, bigint(2)).sign = 0

\* C27: for an exponent e without fractional part, Exp gives 1 for e = 0
\* (also for the base 0); otherwise the base itself for the bases 0 and 1
\* (also for e < 0); otherwise, for the base -1, 1 for even e and -1 for odd
\* e; in these three cases for an exponent of any size. For every other
\* base a value that Exp yields is the exact power: the base multiplied |e|
\* times with itself, and the reciprocal of that for e < 0.
ExpIsExactPower ==
    (/\ callee = "evaluateBinaryOperator"
     /\ args.operator = "Exp"
     /\ args.right.denominator = bigint(1))
        => LET b == args.left
               e == args.right.numerator
           IN  IF e.sign = 0 THEN result = Some(ratOne)
               ELSE IF b = ratZero \/ b = ratOne THEN result = Some(b)
               ELSE IF b = ratMinusOne
               THEN result = Some(IF isEven(e) THEN ratOne ELSE ratMinusOne)
               ELSE result.has =>
                        result.value = IF e.sign > 0
                                       THEN powerOf(b, bigToInt(e))
                                       ELSE ratDiv(ratOne, powerOf(b, bigToInt(abs(e))))

\* -1 was raised to the power 2^32, an exponent above the limit for other bases
ExpIsExactPowerWitness ==
    /\ callee = "evaluateBinaryOperator"
    /\ args.operator = "Exp"
    /\ args.left = ratMinusOne
    /\ args.right = ratInt(bigAdd(UInt32Max, bigint(1)))
    /\ result = Some(ratOne)

\* m is the index of the most significant set bit of b > 0
isMsbOf(m, b) ==
    /\ bigCmp(pow(bigint(2), m), b) <= 0
    /\ bigCmp(b, pow(bigint(2), m + 1)) < 0

\* exponent * (msb + 1) <= 4096
withinEstimate(_exp, m) == bigCmp(bigMul(_exp, bigint(m + 1)), bigint(bitsMax)) <= 0

\* C28 as stated: fitsPrecisionExp returns true for the base 0, and for every
\* base > 0 with most significant bit index msb (0 for the base 1) false if
\* msb > 4096 and otherwise true exactly when exponent * (msb + 1) <= 4096.
FitsPrecisionExpFollowsEstimate ==
    callee = "fitsPrecisionExp"
        => IF args.base.sign = 0 THEN result = TRUE
           ELSE LET m == msb(args.base)
                IN  /\ isMsbOf(m, args.base)
                    /\ IF m > bitsMax THEN result = FALSE
                       ELSE result = withinEstimate(args.exp, m)

\* C28 amended: fitsPrecisionExp returns true for the bases 0 and 1, whatever
\* the exponent, and for every base > 1 with most significant bit index msb
\* false if msb > 4096 and otherwise true exactly when
\* exponent * (msb + 1) <= 4096.
FitsPrecisionExpFollowsEstimateAboveOne ==
    callee = "fitsPrecisionExp"
        => IF args.base.sign = 0 \/ args.base = bigint(1) THEN result = TRUE
           ELSE LET m == msb(args.base)
                IN  /\ isMsbOf(m, args.base)
                    /\ IF m > bitsMax THEN result = FALSE
                       ELSE result = withinEstimate(args.exp, m)

\* fitsPrecisionExp accepted the base 1 with the exponent 4097, which is
\* outside the estimate
FitsPrecisionExpFollowsEstimateWitness ==
    /\ callee = "fitsPrecisionExp"
    /\ args.base = bigint(1)
    /\ args.exp = bigint(bitsMax + 1)
    /\ ~withinEstimate(args.exp, 0)
    /\ result = TRUE

\* ------------------------------------------------------------------------
\* Further properties of the operation handlers
\* ------------------------------------------------------------------------

\* the nodes that are binary operations with a comparison operator
comparisons ==
    {n \in DOMAIN ast : ast[n].kind = "BinaryOperation" /\ ast[n].operator = "LessThan"}

\* the handler of a comparison has evaluated its operands and is about to end
comparisonEnds ==
    /\ operationEnds
    /\ Head(stack).node \in comparisons

\* C29: the visit of a binary operation with a comparison operator ends
\* without a cache entry for the node and without a diagnostic, whatever the
\* operands are, also when both have values and there is no result type for
\* their types; the node never has a value, and evaluate returns 'no value'
\* for it.
ComparisonYieldsNoValue ==
    /\ [][comparisonEnds => endsWithoutValue]_vars
    /\ [](\A n \in comparisons \intersect DOMAIN m_values : m_values[n] = nullopt)
    /\ []((status = "returned" /\ root \in comparisons) => ret = nullopt)

\* 1 < 255 was evaluated where the types of the operands have no result type:
\* both operands have values, the comparison has none, nothing was reported
ComparisonYieldsNoValueWitness ==
    /\ status = "returned"
    /\ root \in comparisons
    /\ ast[root].resultType = NoType
    /\ ast[<<"a", "left">>] = literalOf(1)
    /\ ast[<<"a", "right">>] = literalOf(255)
    /\ m_values[<<"a", "left">>].has
    /\ m_values[<<"a", "right">>].has
    /\ ret = nullopt
    /\ errors = <<>>

\* the operands of the operation whose handler is about to end, as evaluated
evaluatedOperands ==
    IF Head(stack).function = "UnaryOperation" THEN <<ret>> ELSE <<Head(stack).left, ret>>

\* the handler of an operation that is not a comparison is about to end, and
\* every operand was evaluated to a value
operandsHaveValues ==
    /\ operationEnds
    /\ Head(stack).node \notin comparisons
    /\ \A k \in 1..Len(evaluatedOperands) : evaluatedOperands[k].has

\* the handler raises the fatal error 'Operator ... not compatible with
\* types ...' at its node, which gets no cache entry
endsWithIncompatibleTypes ==
    /\ errors' = Append(errors, [code |-> 6020, severity |-> "fatal",
                                 location |-> Head(stack).node, secondary |-> <<>>])
    /\ Head(stack).node \notin DOMAIN m_values'
    /\ status' = "fatal"

\* C30: where the operands have values and there is no result type for their
\* types, the handler of a binary operation that is not a comparison raises
\* the fatal error 6020 and the node gets no value, while the handler of a
\* unary operation ends without a value for the node and without a
\* diagnostic; where there is a result type and an operand does not convert
\* to it, both handlers end without a value and without a diagnostic.
MissingResultTypeHandledPerOperation ==
    /\ [][(/\ operandsHaveValues
           /\ ast[Head(stack).node].resultType = NoType
           /\ Head(stack).function = "BinaryOperation") => endsWithIncompatibleTypes]_vars
    /\ [][(/\ operandsHaveValues
           /\ ast[Head(stack).node].resultType = NoType
           /\ Head(stack).function = "UnaryOperation") => endsWithoutValue]_vars
    /\ [][(/\ operandsHaveValues
           /\ ast[Head(stack).node].resultType # NoType
           /\ \E k \in 1..Len(evaluatedOperands) :
                 ~convertType(evaluatedOperands[k].value.value,
                              ast[Head(stack).node].resultType).has) => endsWithoutValue]_vars

\* 1 + 255 was evaluated where the types of the operands have no result type:
\* the one diagnostic is the fatal error 6020 at the operation, which has no value
MissingResultTypeHandledPerOperationWitness ==
    /\ status = "fatal"
    /\ ast[root].kind = "BinaryOperation"
    /\ ast[root].operator = "Add"
    /\ ast[root].resultType = NoType
    /\ ast[<<"a", "left">>] = literalOf(1)
    /\ ast[<<"a", "right">>] = literalOf(255)
    /\ m_values[<<"a", "left">>].has
    /\ m_values[<<"a", "right">>].has
    /\ root \notin DOMAIN m_values
    /\ Len(errors) = 1
    /\ errors[1].code = 6020
    /\ errors[1].location = root
====
